---- MODULE Spec2Model ----
(***************************************************************************)
(* State-machine model of the sutra tracing-template generator:            *)
(*   - generatePDF (pdfGenerator, src/unnamed/part_000), one record per    *)
(*     invocation, advanced between its suspension points and page by page *)
(*   - its caller handleDownload (src/src/App.tsx)                         *)
(*   - handleFileSelect and the preview pagination of App.tsx              *)
(*   - the practice timer, the check-in calendar and the localStorage      *)
(*     effects of App.tsx, with React's queue of state updates and its     *)
(*     passive effects                                                     *)
(*                                                                         *)
(* Conventions                                                             *)
(*   - an optional value (null | v) is the sequence <<>> | <<v>>           *)
(*   - a character is an integer: > 0 a printable character, <= 0 a        *)
(*     whitespace character (0 a space, -1 a newline)                      *)
(*   - lengths on a page are integers in units of 1/6000 point, so that    *)
(*     841.89 x 595.28 and the grid arithmetic stay exact                  *)
(*   - opacities are integers in thousandths (0.3 is 300)                  *)
(*   - a MIME type is the sequence of its characters                       *)
(*   - a Record<string, number> is a function from its keys to its values  *)
(*   - a string built by a template is the sequence of its parts           *)
(***************************************************************************)
EXTENDS Integers, Sequences, FiniteSets, TLC

VARIABLES
    selectedSutra,    \* App state: <<>> or <<sutra id>>
    config,           \* App state: AppConfig
    customBgImage,    \* App state: <<>> or <<data URI>>
    isDownloading,    \* App state
    gen,              \* gen[c]: the generatePDF invocation in slot c (its locals)
    alertShown,       \* what the latest handler run passed to alert()
    downloadStarted,  \* the file the latest handleDownload run handed to a.click()
    reading,          \* the files whose FileReader has not fired onload yet
    layout,           \* the grid arithmetic of a content page, on its own
    previewPage,      \* App state
    dailyStats,       \* App state: local date string -> seconds
    isTimerRunning,   \* App state
    timer,            \* the host's intervals: the ids that are active, and
                      \* the `interval` of the timer effect's latest run
    today,            \* the host's clock: the index in Days of the local date
    storage,          \* localStorage: the items of the two keys, <<>> if absent
    updates,          \* React: the setState calls not rendered yet
    effects,          \* React: the passive effects of the last render not run yet
    app               \* the page: whether App is mounted, whether under
                      \* StrictMode, and what the mount found stored

vars == <<selectedSutra, config, customBgImage, isDownloading, gen,
          alertShown, downloadStarted, reading, layout, previewPage,
          dailyStats, isTimerRunning, timer, today, storage, updates,
          effects, app>>

(***************************************************************************)
(* Bounds of the model                                                     *)
(***************************************************************************)
\* corpora have stripped length m*300 + d, m in 0..MaxFullPages, d in -1..1
MaxFullPages == 2
\* number of slots for generatePDF invocations
MaxPending == 2
\* seconds of practice followed per date
MaxSeconds == 2
\* page widths and heights tried by the grid arithmetic, beside 841.89 x
\* 595.28: twice the margin plus k tenths of a point and plus k hundred
\* points, k in 1..MaxPageSteps
MaxPageSteps == 2
\* number of FileReader reads that are in flight at a time
MaxReads == 2

Calls == 1..MaxPending

(***************************************************************************)
(* types.ts                                                                *)
(***************************************************************************)
ThemeType == {"golden", "blue", "zen"}
FontType == {"serif", "ming", "kai"}
TracingColor == {"red", "gold", "gray"}
\* tracingOpacity is a percentage; the values followed by the model
TracingOpacities == {0, 40}

AppConfig ==
    [theme : ThemeType, font : FontType,
     tracingColor : TracingColor, tracingOpacity : TracingOpacities]

(***************************************************************************)
(* Constant tables of pdfGenerator                                         *)
(***************************************************************************)
FONT_PATHS(font) ==
    CASE font = "serif" -> "/fonts/NotoSerifTC-Regular.ttf"
      [] font = "ming"  -> "/fonts/NotoSerifTC-Bold.ttf"
      [] font = "kai"   -> "/fonts/LXGWWenKai-Regular.ttf"

BACKGROUND_IMAGES(theme) ==
    CASE theme = "golden" -> "/patterns/golden.jpg"
      [] theme = "blue"   -> "/patterns/blue.jpg"
      [] theme = "zen"    -> "/patterns/bamboo.jpg"

\* rgb triples in thousandths
COLORS(theme) ==
    CASE theme = "golden" -> [bg |-> <<990, 980, 960>>, line |-> <<830, 690, 220>>,
                              text |-> <<360, 250, 200>>]
      [] theme = "blue"   -> [bg |-> <<960, 960, 960>>, line |-> <<120, 230, 540>>,
                              text |-> <<120, 160, 230>>]
      [] theme = "zen"    -> [bg |-> <<980, 980, 960>>, line |-> <<610, 640, 690>>,
                              text |-> <<70, 90, 150>>]

TRACING_COLORS(tc) ==
    CASE tc = "red"  -> <<940, 270, 270>>
      [] tc = "gold" -> <<830, 690, 220>>
      [] tc = "gray" -> <<300, 300, 300>>

cols == 20
rows == 15
wordsPerPage == cols * rows

\* addPage([841.89, 595.28]) in units of 1/6000 point
PageWidth == 84189 * 60
PageHeight == 59528 * 60
PageSize == <<PageWidth, PageHeight>>

(***************************************************************************)
(* The text catalogue (external collaborator): the sutras of the model     *)
(***************************************************************************)
\* A sutra id is the stripped length of its text.
SutraIds ==
    {m * wordsPerPage + d : m \in 0..MaxFullPages, d \in {-1, 0, 1}} \cap Nat

\* The raw text of sutra L.  Its printable characters are 1..L in order.  A
\* sutra of even length carries whitespace: a leading space and a newline
\* after every seventh character; a sutra of odd length carries none.
ContentFull(L) ==
    IF L % 2 = 1
    THEN [i \in 1..L |-> i]
    ELSE [j \in 1..(2 + L + (L \div 7)) |->
            IF j = 1 THEN 0
            ELSE IF j = 2 + L + (L \div 7) THEN -1
            ELSE LET k == j - 1 IN
                 IF k % 8 = 0 THEN -1 ELSE k - (k \div 8)]

SutraTitle(id) == <<"title", id>>

Sutra(id) ==
    [id |-> id, title |-> SutraTitle(id), content_full |-> ContentFull(id)]

(***************************************************************************)
(* Helpers of pdfGenerator                                                 *)
(***************************************************************************)
\* loadFont / loadImage: url.startsWith('http') ? url : origin + url
FullUrl(url) == <<"window.location.origin", url>>

\* what a fetch can answer: it rejects, it answers with a non-OK status, or
\* it answers OK with bytes the embedder accepts or does not accept
FetchOutcomes == {"networkError", "notOk", "okValid", "okCorrupt"}
FetchFailed(outcome) == outcome \in {"networkError", "notOk"}

\* new Error(`...: ${FONT_PATHS[config.font]} ...`) thrown by the font catch block
FontLoadError(cfg) ==
    [name |-> "FontLoadError", text |-> "cannot load font file",
     path |-> <<FONT_PATHS(cfg.font)>>]
\* an exception of the drawing calls / a rejection of pdfDoc.save()
DrawError == [name |-> "DrawError", text |-> "drawing failed", path |-> <<>>]
SerializationError ==
    [name |-> "SerializationError", text |-> "save failed", path |-> <<>>]

\* content_full.replace(/[\s\n]/g, "")
IsWhitespace(ch) == ch <= 0
StripWhitespace(s) == SelectSeq(s, LAMBDA ch : ~IsWhitespace(ch))

\* faulty variant of MathCeilDiv: Math.floor in place of Math.ceil
MathFloorDiv(a, b) == a \div b

\* faulty variant of MathCeilDiv: a page count that is never below one
MathCeilDivAtLeastOne(a, b) ==
    IF a = 0 THEN 1 ELSE IF a % b = 0 THEN a \div b ELSE (a \div b) + 1

\* Math.ceil(a / b) for a >= 0, b > 0
MathCeilDiv(a, b) == IF a % b = 0 THEN a \div b ELSE (a \div b) + 1

\* Math.min
MathMin(a, b) == IF a <= b THEN a ELSE b

\* String.prototype.slice(start, end) for 0 <= start, 0 <= end
Slice(s, start, end) ==
    LET from == MathMin(start, Len(s))
        to   == MathMin(end, Len(s))
    IN  IF from >= to THEN <<>> ELSE SubSeq(s, from + 1, to)

(***************************************************************************)
(* One invocation of generatePDF: its locals                               *)
(***************************************************************************)
IdleCall ==
    [pc         |-> "idle",
     sutra      |-> <<>>,    \* <<sutra id>>: the first argument
     config     |-> <<>>,    \* <<AppConfig>>: the second argument
     extraArg   |-> <<>>,    \* the third argument handleDownload passes
     fontBytes  |-> <<>>,    \* <<[url, valid]>> once fetched
     customFont |-> <<>>,    \* <<font path>> once embedded
     imageBytes |-> <<>>,
     bgImage    |-> <<>>,    \* <<image url>> once embedded, <<>> is null
     content    |-> <<>>,    \* <<stripped corpus>> after grid setup
     totalPages |-> <<>>,    \* <<n>> after grid setup
     p          |-> 0,       \* loop variable of the sutra pages loop
     pages      |-> <<>>,    \* pdfDoc: the pages added so far
     fetched    |-> <<>>,    \* the urls fetch() was called with
     console    |-> <<>>,    \* console.warn / console.error / success logs
     error      |-> <<>>,    \* <<error>> once rejected
     result     |-> <<>>]    \* <<document>> once resolved

Cfg(call) == call.config[1]
TheSutra(call) == Sutra(call.sutra[1])
\* sutra.title
TitleOf(call) == SutraTitle(call.sutra[1])

\* generatePDF(sutra, config): two parameters; further arguments are not bound.
\* Runs to its first await, PDFDocument.create().
StartCall(sutraId, cfg, extra) ==
    [IdleCall EXCEPT !.pc = "create", !.sutra = <<sutraId>>, !.config = <<cfg>>,
                     !.extraArg = extra]

\* faulty variant of RejectFont: fall back to a standard font and go on
FallBackToStandardFont(call) ==
    [call EXCEPT !.pc = "bgFetch",
                 !.customFont = <<"StandardFonts.Helvetica">>,
                 !.console = Append(@, "Custom font failed to load"),
                 !.fetched = Append(@, FullUrl(BACKGROUND_IMAGES(Cfg(call).theme)))]

\* the catch block of "Load Font": rethrows a new Error naming the font path
RejectFont(call) ==
    [call EXCEPT !.pc = "rejected", !.error = <<FontLoadError(Cfg(call))>>,
                 !.console = Append(@, "Custom font failed to load")]

\* faulty variant of AfterCreate: font bytes are kept in a cache shared by
\* the invocations, and a font already fetched is not fetched again
AfterCreateCached(call) ==
    LET have == {d \in Calls : /\ gen[d].fontBytes # <<>>
                               /\ gen[d].fontBytes[1].url = FONT_PATHS(Cfg(call).font)}
    IN  IF have # {}
        THEN [call EXCEPT !.pc = "fontEmbed",
                          !.fontBytes = gen[CHOOSE d \in have : TRUE].fontBytes]
        ELSE [call EXCEPT !.pc = "fontFetch",
                          !.fetched = Append(@, FullUrl(FONT_PATHS(Cfg(call).font)))]

\* after create(): registerFontkit, then loadFont(FONT_PATHS[config.font])
\* runs to its fetch
AfterCreate(call) ==
    [call EXCEPT !.pc = "fontFetch",
                 !.fetched = Append(@, FullUrl(FONT_PATHS(Cfg(call).font)))]

\* faulty variant of AfterFontFetch: a failed fetch is tried once more
AfterFontFetchRetry(call, outcome) ==
    IF FetchFailed(outcome)
    THEN IF Len(call.fetched) < 2
         THEN [call EXCEPT !.fetched =
                   Append(@, FullUrl(FONT_PATHS(Cfg(call).font)))]
         ELSE RejectFont(call)
    ELSE [call EXCEPT !.pc = "fontEmbed",
                      !.fontBytes = <<[url   |-> FONT_PATHS(Cfg(call).font),
                                       valid |-> outcome = "okValid"]>>]

\* loadFont's fetch settles
AfterFontFetch(call, outcome) ==
    IF FetchFailed(outcome)
    THEN RejectFont([call EXCEPT !.console = Append(@, "Font loading error")])
    ELSE [call EXCEPT !.pc = "fontEmbed",
                      !.fontBytes = <<[url   |-> FONT_PATHS(Cfg(call).font),
                                       valid |-> outcome = "okValid"]>>]

\* "Grid Setup": content, wordsPerPage, totalPages; the block then runs on
\* synchronously to the ritual page
GridSetup(call) ==
    LET content == StripWhitespace(TheSutra(call).content_full)
    IN  [call EXCEPT !.pc = "ritual",
                     !.content = <<content>>,
                     !.totalPages = <<MathCeilDiv(Len(content), wordsPerPage)>>]

\* the image path "Load Background" loads
BackgroundUrl(call) == BACKGROUND_IMAGES(Cfg(call).theme)

\* pdfDoc.embedFont settles; on success "Load Background" runs to its fetch
AfterFontEmbed(call) ==
    IF call.fontBytes[1].valid
    THEN [call EXCEPT !.pc = "bgFetch",
                      !.customFont = <<call.fontBytes[1].url>>,
                      !.console = Append(@, "Font loaded successfully"),
                      !.fetched = Append(@, FullUrl(BackgroundUrl(call)))]
    ELSE RejectFont(call)

\* faulty variant of SkipBackground: the background failure is rethrown
RethrowBackground(call) ==
    [call EXCEPT !.pc = "rejected",
                 !.error = <<[name |-> "BackgroundLoadError",
                              text |-> "cannot load background",
                              path |-> <<BackgroundUrl(call)>>]>>]

\* the catch block of "Load Background": warn and continue, bgImage stays null
SkipBackground(call) ==
    GridSetup([call EXCEPT !.console =
        Append(@, "Background load failed, continuing without background")])

\* loadImage's fetch settles
AfterBgFetch(call, outcome) ==
    IF FetchFailed(outcome)
    THEN SkipBackground([call EXCEPT !.console = Append(@, "Image loading error")])
    ELSE [call EXCEPT !.pc = "bgEmbed",
                      !.imageBytes = <<[url   |-> BackgroundUrl(call),
                                        valid |-> outcome = "okValid"]>>]

\* pdfDoc.embedJpg settles
AfterBgEmbed(call) ==
    IF call.imageBytes[1].valid
    THEN GridSetup([call EXCEPT !.bgImage = <<call.imageBytes[1].url>>,
                                !.console = Append(@, "Background loaded successfully")])
    ELSE SkipBackground(call)

(***************************************************************************)
(* Pages                                                                   *)
(***************************************************************************)
\* pdfDoc.addPage([841.89, 595.28])
NewPage(kind) ==
    [kind   |-> kind,
     size   |-> PageSize,
     bg     |-> <<>>,     \* <<[image, opacity]>> when a background is drawn
     texts  |-> <<>>,     \* centred lines: <<text, distance from the top, size>>
     grid   |-> <<>>,     \* <<[vertical, horizontal, opacity]>> on a content page
     glyphs |-> <<>>,     \* the characters drawn, in drawing order
     footer |-> <<>>]     \* <<[title, pageNumber, opacity]>> on a content page

\* drawBackground: nothing when bgImage is null, else the image at opacity 0.15
drawBackground(page, bgImage) ==
    IF bgImage = <<>> THEN page
    ELSE [page EXCEPT !.bg = <<[image |-> bgImage[1], opacity |-> 150]>>]

\* "Ritual Page": five centred lines
RitualPage(call) ==
    [drawBackground(NewPage("ritual"), call.bgImage) EXCEPT !.texts =
        << <<"he zhang song nian san cheng", 200, 24>>,
           <<"namo ben shi shijiamouni fo", 250, 20>>,
           <<"kai jing ji", 350, 20>>,
           <<"wu shang shen shen wei miao fa", 400, 18>>,
           <<"wo jin jian wen de shou chi", 430, 18>> >>]

\* "Dedication Page": six centred lines
DedicationPage(call) ==
    [drawBackground(NewPage("dedication"), call.bgImage) EXCEPT !.texts =
        << <<"hui xiang wen", 200, 24>>,
           <<"yuan yi ci gong de", 250, 18>>,
           <<"shang bao si chong en", 280, 18>>,
           <<"ruo you jian wen zhe", 310, 18>>,
           <<"jin ci yi bao shen", 340, 18>>,
           <<"wo ____ yuan yi ci gong de hui xiang", 450, 16>> >>]

\* margins of 60 points
marginX == 60 * 6000
marginY == 60 * 6000

\* faulty variant of CellSize: the larger of the two quotients
CellSizeMax(width, height) ==
    LET a == (width - 2 * marginX) \div cols
        b == (height - 2 * marginY) \div rows
    IN  IF a > b THEN a ELSE b

\* cellSize, startX, startY of a content page
CellSize(width, height) ==
    MathMin((width - 2 * marginX) \div cols, (height - 2 * marginY) \div rows)
StartX(width, height) == (width - cols * CellSize(width, height)) \div 2
StartY(width, height) == (height - rows * CellSize(width, height)) \div 2

\* faulty variant of PageContent: the slice ends one character early
PageContentShort(content, p) ==
    Slice(content, p * wordsPerPage, (p + 1) * wordsPerPage - 1)

\* faulty variant of PageContent: every page after the first starts with the
\* last character of the page before
PageContentOverlap(content, p) ==
    Slice(content, IF p = 0 THEN 0 ELSE p * wordsPerPage - 1, (p + 1) * wordsPerPage)

\* const pageContent = content.slice(p * wordsPerPage, (p + 1) * wordsPerPage)
PageContent(content, p) == Slice(content, p * wordsPerPage, (p + 1) * wordsPerPage)

\* faulty variant of CharCell: the index is split by cols instead of rows
CharCellSplitByCols(i, width, height) ==
    LET col == i \div cols
        row == i % cols
        cellSize == CellSize(width, height)
    IN  [col |-> col,
         row |-> row,
         x   |-> StartX(width, height) + (cols - col - 1) * cellSize
                    + (cellSize \div 2),
         y   |-> StartY(width, height) + (rows - row - 1) * cellSize
                    + (cellSize \div 2)]

\* faulty variant of CharCell: the columns run from left to right
CharCellLeftToRight(i, width, height) ==
    LET col == i \div rows
        row == i % rows
        cellSize == CellSize(width, height)
    IN  [col |-> col,
         row |-> row,
         x   |-> StartX(width, height) + col * cellSize + (cellSize \div 2),
         y   |-> StartY(width, height) + (rows - row - 1) * cellSize
                    + (cellSize \div 2)]

\* col, row, x, y of the character at index i (0-based) of a page
CharCell(i, width, height) ==
    LET col == i \div rows
        row == i % rows
        cellSize == CellSize(width, height)
    IN  [col |-> col,
         row |-> row,
         x   |-> StartX(width, height) + (cols - col - 1) * cellSize
                    + (cellSize \div 2),
         y   |-> StartY(width, height) + (rows - row - 1) * cellSize
                    + (cellSize \div 2)]

\* faulty variant of tOpacity: (tracingOpacity / 100) || 1, a zero opacity
\* falls back to opaque
tOpacityOrOpaque(cfg) ==
    IF cfg.tracingOpacity = 0 THEN 1000 ELSE (cfg.tracingOpacity * 1000) \div 100

\* const tOpacity = config.tracingOpacity / 100, in thousandths
tOpacity(cfg) == (cfg.tracingOpacity * 1000) \div 100

\* the body of "Draw Characters" for the character at index i (0-based)
Glyph(call, ch, i, width, height) ==
    LET cell == CharCell(i, width, height)
    IN  [char    |-> ch,
         col     |-> cell.col,
         row     |-> cell.row,
         x       |-> cell.x,
         y       |-> cell.y,
         color   |-> TRACING_COLORS(Cfg(call).tracingColor),
         opacity |-> tOpacity(Cfg(call))]

\* "Draw Grid": cols + 1 vertical and rows + 1 horizontal lines
GridLines(call) ==
    [vertical |-> cols + 1, horizontal |-> rows + 1,
     color |-> COLORS(Cfg(call).theme).line, opacity |-> 300]

\* faulty variant of Footer: the loop index is printed as it is
FooterZeroBased(call, p) ==
    [brand |-> "yuanbao chaojing",
     title |-> TitleOf(call),
     pageNumber |-> p,
     color |-> COLORS(Cfg(call).theme).text,
     opacity |-> 400]

\* "Footer" of the content page of index p
Footer(call, p) ==
    [brand |-> "yuanbao chaojing",
     title |-> TitleOf(call),
     pageNumber |-> p + 1,
     color |-> COLORS(Cfg(call).theme).text,
     opacity |-> 400]

\* the body of the sutra pages loop for page index p
ContentPage(call, p) ==
    LET page == drawBackground(NewPage("content"), call.bgImage)
        pageContent == PageContent(call.content[1], p)
    IN  [page EXCEPT
            !.grid = <<GridLines(call)>>,
            !.glyphs = [i \in 1..Len(pageContent) |->
                            Glyph(call, pageContent[i], i - 1,
                                  page.size[1], page.size[2])],
            !.footer = <<Footer(call, p)>>]

\* faulty variant of LoopOrDedication: the loop condition p <= totalPages
LoopOrDedicationInclusive(call, p) ==
    IF p <= call.totalPages[1] THEN "content" ELSE "dedication"

\* where the block goes once p pages of the loop are done: p < totalPages
LoopOrDedication(call, p) ==
    IF p < call.totalPages[1] THEN "content" ELSE "dedication"

\* faulty variant of AfterRitual: the loop variable is shared by the
\* invocations and is not reset
AfterRitualSharedP(call) ==
    LET p0 == CHOOSE n \in {gen[d].p : d \in Calls} :
                  \A d \in Calls : gen[d].p <= n
    IN  [call EXCEPT !.pages = Append(@, RitualPage(call)),
                     !.p = p0,
                     !.pc = LoopOrDedication(call, p0)]

\* the ritual page is added; the loop starts with p = 0
AfterRitual(call) ==
    [call EXCEPT !.pages = Append(@, RitualPage(call)),
                 !.p = 0,
                 !.pc = LoopOrDedication(call, 0)]

\* one iteration of the loop, then p++
AfterContentPage(call) ==
    [call EXCEPT !.pages = Append(@, ContentPage(call, call.p)),
                 !.p = call.p + 1,
                 !.pc = LoopOrDedication(call, call.p + 1)]

\* faulty variant of AfterDedication: the dedication page is put in front
AfterDedicationFirst(call) ==
    [call EXCEPT !.pages = <<DedicationPage(call)>> \o @, !.pc = "save"]

\* the dedication page is added; return pdfDoc.save()
AfterDedication(call) ==
    [call EXCEPT !.pages = Append(@, DedicationPage(call)), !.pc = "save"]

\* faulty variant of Throw: the exception is swallowed and the partial document returned
ReturnPartial(call, err) ==
    [call EXCEPT !.pc = "resolved", !.result = <<call.pages>>, !.error = <<err>>]

\* a drawing call throws: the promise of generatePDF rejects with it
Throw(call, err) == [call EXCEPT !.pc = "rejected", !.error = <<err>>]

\* faulty variant of AfterSave: the answer of the serializer is dropped
AfterSaveDropped(call, ok) == call

\* pdfDoc.save() settles: the promise resolves with the serialized document
AfterSave(call, ok) ==
    IF ok THEN [call EXCEPT !.pc = "resolved", !.result = <<call.pages>>]
    ELSE Throw(call, SerializationError)

(***************************************************************************)
(* handleDownload (App.tsx)                                                *)
(***************************************************************************)
\* the data URI of an uploaded image
CustomImages == {"data:image/png;base64,A"}

\* the try block after the await: the blob handed to the browser as a download
DownloadOf(call) ==
    IF call.pc = "resolved"
    THEN <<[download |-> <<TitleOf(call), ".pdf">>, bytes |-> call.result[1]]>>
    ELSE <<>>

\* the catch block: alert(`PDF ... : ${error.message}`)
AlertOf(call) ==
    IF call.pc = "rejected"
    THEN <<[text |-> "PDF generation failed", message |-> call.error[1]]>>
    ELSE <<>>

\* the grid arithmetic of a width x height page before any of it is computed
NoLayout(width, height) ==
    [width |-> width, height |-> height,
     cellSize |-> <<>>, startX |-> <<>>, startY |-> <<>>,
     placed |-> 0, cell |-> <<>>]

(***************************************************************************)
(* The preview of the detail view (App.tsx)                                *)
(***************************************************************************)
\* selectedSutra.content_full.replace(/[\s\n]/g, '').split('')
PreviewContent(sutra) == StripWhitespace(sutra.content_full)

\* faulty variant of PreviewPageChars: previewPage taken as a 0-based index
PreviewPageCharsFromZero(sutra, page) ==
    Slice(PreviewContent(sutra), page * 300, (page + 1) * 300)

\* .slice((previewPage - 1) * 300, previewPage * 300), page the previewPage
PreviewPageChars(sutra, page) ==
    Slice(PreviewContent(sutra), (page - 1) * 300, page * 300)

\* Math.ceil(selectedSutra.content_full.replace(/[\s\n]/g, '').length / 300)
PreviewTotalPages(sutra) == MathCeilDiv(Len(PreviewContent(sutra)), 300)

\* "grid grid-flow-col grid-cols-20 grid-rows-15" with direction: 'rtl': the
\* i-th child (0-based) fills the columns of 15 rows one after another from
\* the top; col counts the columns from the right edge, row from the top
PreviewCell(i) == [col |-> i \div 15, row |-> i % 15]

(***************************************************************************)
(* The practice record and its persistence (App.tsx): the local date of a  *)
(* tick, the two updaters of dailyStats, the effects that load and save    *)
(* the two localStorage items, the timer effect                            *)
(***************************************************************************)
\* the local dates the host's clock passes: values of new Date() given by
\* getFullYear(), getMonth() (0-based) and getDate()
Days ==
    << [year |-> 2025, month |-> 11, date |-> 31],
       [year |-> 2026, month |-> 0, date |-> 1] >>

\* String(n).padStart(2, '0'), n < 100: the two digits
PadStart2(n) == <<n \div 10, n % 10>>

\* `${year}-${month}-${day}`
getLocalDateString(date) ==
    <<date.year, "-">> \o PadStart2(date.month + 1) \o <<"-">> \o PadStart2(date.date)

\* useState<Record<string, number>>({})
NoStats == [k \in {} |-> 0]

\* Object.keys(obj)
ObjectKeys(obj) == DOMAIN obj

\* JSON.stringify of a Record<string, number>: the text of its entries
JSONStringify(obj) == [json |-> {<<k, obj[k]>> : k \in ObjectKeys(obj)}]

\* JSON.parse of such a text
JSONParse(text) ==
    [k \in {e[1] : e \in text.json} |-> (CHOOSE e \in text.json : e[1] = k)[2]]

\* faulty variant of toggleCheckin: a date that is present is set back to 0
\* and not removed
toggleCheckinKeepsKey(prev, dateStr) ==
    [k \in ObjectKeys(prev) \cup {dateStr} |-> IF k = dateStr THEN 0 ELSE prev[k]]

\* the updater of toggleCheckin(dateStr)
toggleCheckin(prev, dateStr) ==
    IF dateStr \in ObjectKeys(prev)
    THEN [k \in ObjectKeys(prev) \ {dateStr} |-> prev[k]]
    ELSE [k \in ObjectKeys(prev) \cup {dateStr} |-> IF k = dateStr THEN 0 ELSE prev[k]]

\* the updater of the interval callback:
\* prev => ({ ...prev, [todayStr]: (prev[todayStr] || 0) + 1 })
TickSecond(prev, todayStr) ==
    [k \in ObjectKeys(prev) \cup {todayStr} |->
        IF k = todayStr
        THEN (IF todayStr \in ObjectKeys(prev) THEN prev[todayStr] ELSE 0) + 1
        ELSE prev[k]]

\* a queued setState call: setX(value), or setDailyStats(updater)
SetState(state, op, arg) == [state |-> state, op |-> op, arg |-> arg]

\* the state a render computes from one queued call
ApplyUpdate(st, u) ==
    CASE u.state = "customBgImage" -> [st EXCEPT !.customBgImage = u.arg]
      [] u.state = "isTimerRunning" -> [st EXCEPT !.isTimerRunning = u.arg]
      [] u.state = "dailyStats" ->
             [st EXCEPT !.dailyStats =
                 CASE u.op = "set" -> u.arg
                   [] u.op = "toggleCheckin" -> toggleCheckin(@, u.arg)
                   [] u.op = "tick" -> TickSecond(@, u.arg)]

RECURSIVE ApplyUpdates(_, _)
ApplyUpdates(st, us) ==
    IF us = <<>> THEN st ELSE ApplyUpdates(ApplyUpdate(st, Head(us)), Tail(us))

\* the part of the state the effects read and write, as one record
World ==
    [customBgImage |-> customBgImage, dailyStats |-> dailyStats,
     isTimerRunning |-> isTimerRunning, timer |-> timer, storage |-> storage,
     updates |-> updates, effects |-> effects]

\* a passive effect scheduled by a render, with the values of its closure
Effect(name, closure) == [effect |-> name, closure |-> closure]

\* a render: the queued calls are applied in their order; the effects whose
\* dependency changed are scheduled in the order of their declaration
\* (customBgImage and isTimerRunning are compared by value, dailyStats by
\* reference: each of its calls makes a new object)
Render(w) ==
    LET st == ApplyUpdates([customBgImage |-> w.customBgImage,
                            dailyStats |-> w.dailyStats,
                            isTimerRunning |-> w.isTimerRunning], w.updates)
    IN  [w EXCEPT
           !.customBgImage = st.customBgImage,
           !.dailyStats = st.dailyStats,
           !.isTimerRunning = st.isTimerRunning,
           !.updates = <<>>,
           !.effects =
               (IF st.customBgImage # w.customBgImage
                THEN <<Effect("saveCustomBg", st.customBgImage)>> ELSE <<>>)
               \o (IF \E i \in DOMAIN w.updates : w.updates[i].state = "dailyStats"
                   THEN <<Effect("saveStats", st.dailyStats)>> ELSE <<>>)
               \o (IF st.isTimerRunning # w.isTimerRunning
                   THEN <<Effect("timer", st.isTimerRunning)>> ELSE <<>>)]

\* setInterval: an id that no active interval has
NewInterval(active) == CHOOSE id \in 1..(Cardinality(active) + 1) : id \notin active

\* faulty variant of TimerEffect: the effect returns no cleanup
TimerEffectNoCleanup(tm, running) ==
    IF running
    THEN LET id == NewInterval(tm.active)
         IN  [active |-> tm.active \cup {id}, interval |-> <<id>>]
    ELSE [active |-> tm.active, interval |-> <<>>]

\* the timer effect with isTimerRunning = running: the cleanup of its
\* previous run, clearInterval(interval), then its body
TimerEffect(tm, running) ==
    LET cleared == tm.active \ {tm.interval[i] : i \in DOMAIN tm.interval}
    IN  IF running
        THEN LET id == NewInterval(cleared)
             IN  [active |-> cleared \cup {id}, interval |-> <<id>>]
        ELSE [active |-> cleared, interval |-> <<>>]

\* one passive effect
RunEffect(w, e) ==
    CASE e.effect = "loadCustomBg" ->
             IF w.storage.bg # <<>>
             THEN [w EXCEPT !.updates =
                      Append(@, SetState("customBgImage", "set", w.storage.bg))]
             ELSE w
      [] e.effect = "saveCustomBg" ->
             [w EXCEPT !.storage.bg = e.closure]
      [] e.effect = "loadStats" ->
             IF w.storage.stats # <<>>
             THEN [w EXCEPT !.updates =
                      Append(@, SetState("dailyStats", "set",
                                         JSONParse(w.storage.stats[1])))]
             ELSE w
      [] e.effect = "saveStats" ->
             IF Cardinality(ObjectKeys(e.closure)) > 0
             THEN [w EXCEPT !.storage.stats = <<JSONStringify(e.closure)>>]
             ELSE w
      [] e.effect = "timer" ->
             [w EXCEPT !.timer = TimerEffect(@, e.closure)]

\* the effect at the head of the pending ones
RunNextEffect(w) == [RunEffect(w, Head(w.effects)) EXCEPT !.effects = Tail(w.effects)]

\* flushPassiveEffects: the pending effects run in their order
RECURSIVE FlushPassiveEffects(_)
FlushPassiveEffects(w) ==
    IF w.effects = <<>> THEN w ELSE FlushPassiveEffects(RunNextEffect(w))

\* a setState call of a timer or load callback, and the render it causes:
\* React runs the effects still pending before it renders
Callback(w, u) ==
    Render([FlushPassiveEffects(w) EXCEPT !.updates = Append(@, u)])

\* a setState call of a click handler: React renders and runs the effects
\* of that render before the event returns
DiscreteEvent(w, u) == FlushPassiveEffects(Callback(w, u))

\* the variables take the values of w
Commit(w) ==
    /\ customBgImage' = w.customBgImage
    /\ dailyStats' = w.dailyStats
    /\ isTimerRunning' = w.isTimerRunning
    /\ timer' = w.timer
    /\ storage' = w.storage
    /\ updates' = w.updates
    /\ effects' = w.effects

\* App is mounted and at rest: nothing queued, no interval, first local date
RestInit ==
    /\ previewPage = 1
    /\ dailyStats = NoStats
    /\ isTimerRunning = FALSE
    /\ timer = [active |-> {}, interval |-> <<>>]
    /\ today = 1
    /\ storage = [stats |-> <<>>, bg |-> customBgImage]
    /\ updates = <<>>
    /\ effects = <<>>
    /\ app = [mounted |-> TRUE, strict |-> FALSE, restored |-> customBgImage,
              touched |-> FALSE]

RestUnchanged ==
    UNCHANGED <<previewPage, dailyStats, isTimerRunning, timer, today, storage,
                updates, effects, app>>

(***************************************************************************)
(* Initial states: the App state a user can have set up before a download  *)
(* click; no invocation has started                                        *)
(***************************************************************************)
Init ==
    /\ selectedSutra \in {<<>>} \cup {<<id>> : id \in SutraIds}
    /\ config \in AppConfig
    /\ customBgImage \in {<<>>} \cup {<<img>> : img \in CustomImages}
    /\ isDownloading = FALSE
    /\ gen = [c \in Calls |-> IdleCall]
    /\ alertShown = <<>>
    /\ downloadStarted = <<>>
    /\ reading = <<>>
    /\ layout = NoLayout(PageWidth, PageHeight)
    /\ RestInit

AppUnchanged ==
    /\ UNCHANGED <<selectedSutra, config, customBgImage, isDownloading,
                   alertShown, downloadStarted, reading, layout>>
    /\ RestUnchanged

\* the slot a new invocation takes: the first one that holds no invocation
FreeSlot(c) ==
    /\ gen[c].pc = "idle"
    /\ \A d \in Calls : d < c => gen[d].pc # "idle"

\* faulty variant of HandleDownload: the button is not disabled while
\* isDownloading
HandleDownloadAnyTime(c) ==
    /\ FreeSlot(c)
    /\ IF selectedSutra = <<>>
       THEN UNCHANGED vars
       ELSE /\ isDownloading' = TRUE
            /\ gen' = [gen EXCEPT ![c] =
                          StartCall(selectedSutra[1], config, customBgImage)]
            /\ alertShown' = <<>>
            /\ downloadStarted' = <<>>
            /\ UNCHANGED <<selectedSutra, config, customBgImage, reading, layout>>
            /\ RestUnchanged

\* a click on the download button (disabled while isDownloading): handleDownload
\* up to its await; the new invocation takes a free slot
HandleDownload(c) ==
    /\ ~isDownloading
    /\ FreeSlot(c)
    /\ IF selectedSutra = <<>>
       THEN UNCHANGED vars
       ELSE /\ isDownloading' = TRUE
            /\ gen' = [gen EXCEPT ![c] =
                          StartCall(selectedSutra[1], config, customBgImage)]
            /\ alertShown' = <<>>
            /\ downloadStarted' = <<>>
            /\ UNCHANGED <<selectedSutra, config, customBgImage, reading, layout>>
            /\ RestUnchanged

\* handleDownload after its await: try / catch / finally
HandleDownloadResume(c) ==
    /\ gen[c].pc \in {"resolved", "rejected"}
    /\ downloadStarted' = DownloadOf(gen[c])
    /\ alertShown' = AlertOf(gen[c])
    /\ isDownloading' = FALSE
    /\ gen' = [gen EXCEPT ![c] = IdleCall]
    /\ UNCHANGED <<selectedSutra, config, customBgImage, reading, layout>>
    /\ RestUnchanged

(***************************************************************************)
(* The steps of generatePDF                                                *)
(***************************************************************************)
CreateDoc(c) ==
    /\ gen[c].pc = "create"
    /\ gen' = [gen EXCEPT ![c] = AfterCreate(gen[c])]
    /\ AppUnchanged

FontFetchSettles(c, outcome) ==
    /\ gen[c].pc = "fontFetch"
    /\ gen' = [gen EXCEPT ![c] = AfterFontFetch(gen[c], outcome)]
    /\ AppUnchanged

FontEmbedSettles(c) ==
    /\ gen[c].pc = "fontEmbed"
    /\ gen' = [gen EXCEPT ![c] = AfterFontEmbed(gen[c])]
    /\ AppUnchanged

BgFetchSettles(c, outcome) ==
    /\ gen[c].pc = "bgFetch"
    /\ gen' = [gen EXCEPT ![c] = AfterBgFetch(gen[c], outcome)]
    /\ AppUnchanged

BgEmbedSettles(c) ==
    /\ gen[c].pc = "bgEmbed"
    /\ gen' = [gen EXCEPT ![c] = AfterBgEmbed(gen[c])]
    /\ AppUnchanged

DrawRitualPage(c) ==
    /\ gen[c].pc = "ritual"
    /\ gen' = [gen EXCEPT ![c] = AfterRitual(gen[c])]
    /\ AppUnchanged

DrawContentPage(c) ==
    /\ gen[c].pc = "content"
    /\ gen' = [gen EXCEPT ![c] = AfterContentPage(gen[c])]
    /\ AppUnchanged

DrawDedicationPage(c) ==
    /\ gen[c].pc = "dedication"
    /\ gen' = [gen EXCEPT ![c] = AfterDedication(gen[c])]
    /\ AppUnchanged

\* a drawing call of the page about to be drawn throws
DrawThrows(c) ==
    /\ gen[c].pc \in {"ritual", "content", "dedication"}
    /\ gen' = [gen EXCEPT ![c] = Throw(gen[c], DrawError)]
    /\ AppUnchanged

SaveSettles(c, ok) ==
    /\ gen[c].pc = "save"
    /\ gen' = [gen EXCEPT ![c] = AfterSave(gen[c], ok)]
    /\ AppUnchanged

Next ==
    \/ \E c \in Calls : HandleDownload(c)
    \/ \E c \in Calls : HandleDownloadResume(c)
    \/ \E c \in Calls : CreateDoc(c)
    \/ \E c \in Calls, outcome \in FetchOutcomes : FontFetchSettles(c, outcome)
    \/ \E c \in Calls : FontEmbedSettles(c)
    \/ \E c \in Calls, outcome \in FetchOutcomes : BgFetchSettles(c, outcome)
    \/ \E c \in Calls : BgEmbedSettles(c)
    \/ \E c \in Calls : DrawRitualPage(c)
    \/ \E c \in Calls : DrawContentPage(c)
    \/ \E c \in Calls : DrawDedicationPage(c)
    \/ \E c \in Calls : DrawThrows(c)
    \/ \E c \in Calls, ok \in BOOLEAN : SaveSettles(c, ok)

Spec == Init /\ [][Next]_vars

(***************************************************************************)
(* The same program followed from fewer initial states: the font and the   *)
(* custom background of a fresh App (DEFAULT_CONFIG.font, no upload), every *)
(* sutra, theme and tracing setting.  Used for the properties that look at *)
(* every glyph of every page.                                              *)
(***************************************************************************)
\* constants: DEFAULT_CONFIG
DEFAULT_CONFIG ==
    [theme |-> "golden", font |-> "serif", tracingColor |-> "gray",
     tracingOpacity |-> 40]

InitLayout ==
    /\ Init
    /\ config.font = DEFAULT_CONFIG.font
    /\ customBgImage = <<>>

SpecLayout == InitLayout /\ [][Next]_vars

(***************************************************************************)
(* The grid arithmetic of a content page on its own, for pages of other    *)
(* sizes than the one generatePDF adds                                     *)
(***************************************************************************)
PageWidths ==
    {PageWidth} \cup {2 * marginX + 600 * k : k \in 1..MaxPageSteps}
                \cup {2 * marginX + 600000 * k : k \in 1..MaxPageSteps}
PageHeights ==
    {PageHeight} \cup {2 * marginY + 600 * k : k \in 1..MaxPageSteps}
                 \cup {2 * marginY + 600000 * k : k \in 1..MaxPageSteps}

InitGeom ==
    /\ selectedSutra = <<>>
    /\ config = DEFAULT_CONFIG
    /\ customBgImage = <<>>
    /\ isDownloading = FALSE
    /\ gen = [c \in Calls |-> IdleCall]
    /\ alertShown = <<>>
    /\ downloadStarted = <<>>
    /\ reading = <<>>
    /\ layout \in {NoLayout(w, h) : w \in PageWidths, h \in PageHeights}
    /\ RestInit

\* const { width, height } = page.getSize() ... const startY = ...
LayOutGrid ==
    /\ layout.cellSize = <<>>
    /\ layout' = [layout EXCEPT
                    !.cellSize = <<CellSize(layout.width, layout.height)>>,
                    !.startX = <<StartX(layout.width, layout.height)>>,
                    !.startY = <<StartY(layout.width, layout.height)>>]
    /\ UNCHANGED <<selectedSutra, config, customBgImage, isDownloading, gen,
                   alertShown, downloadStarted, reading>>
    /\ RestUnchanged

\* one iteration of pageContent.forEach: the character of the next index
PlaceChar ==
    /\ layout.cellSize # <<>>
    /\ layout.placed < wordsPerPage
    /\ layout' = [layout EXCEPT
                    !.placed = @ + 1,
                    !.cell = <<CharCell(layout.placed, layout.width, layout.height)>>]
    /\ UNCHANGED <<selectedSutra, config, customBgImage, isDownloading, gen,
                   alertShown, downloadStarted, reading>>
    /\ RestUnchanged

NextGeom == LayOutGrid \/ PlaceChar

SpecGeom == InitGeom /\ [][NextGeom]_vars

(***************************************************************************)
(* generatePDF called by a host that does not wait for one invocation      *)
(* before it starts the next (the export has no guard of its own).  An     *)
(* invocation is suspended at its awaits only: the block from the settling *)
(* of "Load Background" to the call of pdfDoc.save() runs without          *)
(* interruption.                                                           *)
(***************************************************************************)
\* the arguments the host calls with
ConcInputs ==
    { <<301, DEFAULT_CONFIG>>,
      <<1, [theme |-> "blue", font |-> "kai", tracingColor |-> "red",
            tracingOpacity |-> 0]>> }

InitConc ==
    /\ selectedSutra = <<>>
    /\ config = DEFAULT_CONFIG
    /\ customBgImage = <<>>
    /\ isDownloading = FALSE
    /\ gen = [c \in Calls |-> IdleCall]
    /\ alertShown = <<>>
    /\ downloadStarted = <<>>
    /\ reading = <<>>
    /\ layout = NoLayout(PageWidth, PageHeight)
    /\ RestInit

\* the synchronous block: ritual page, sutra pages loop, dedication page, up
\* to the call of pdfDoc.save()
RECURSIVE RunBlock(_)
RunBlock(call) ==
    IF call.pc = "ritual" THEN RunBlock(AfterRitual(call))
    ELSE IF call.pc = "content" THEN RunBlock(AfterContentPage(call))
    ELSE IF call.pc = "dedication" THEN RunBlock(AfterDedication(call))
    ELSE call

\* generatePDF(sutra, config) is called: it runs to its first await
HostCall(c, input) ==
    /\ FreeSlot(c)
    /\ gen' = [gen EXCEPT ![c] = StartCall(input[1], input[2], <<>>)]
    /\ AppUnchanged

\* loadImage's fetch settles; on a failure the block runs on to save()
BgFetchSettlesRun(c, outcome) ==
    /\ gen[c].pc = "bgFetch"
    /\ gen' = [gen EXCEPT ![c] = RunBlock(AfterBgFetch(gen[c], outcome))]
    /\ AppUnchanged

\* embedJpg settles; the block runs on to save()
BgEmbedSettlesRun(c) ==
    /\ gen[c].pc = "bgEmbed"
    /\ gen' = [gen EXCEPT ![c] = RunBlock(AfterBgEmbed(gen[c]))]
    /\ AppUnchanged

NextConc ==
    \/ \E c \in Calls, input \in ConcInputs : HostCall(c, input)
    \/ \E c \in Calls : CreateDoc(c)
    \/ \E c \in Calls, outcome \in FetchOutcomes : FontFetchSettles(c, outcome)
    \/ \E c \in Calls : FontEmbedSettles(c)
    \/ \E c \in Calls, outcome \in FetchOutcomes : BgFetchSettlesRun(c, outcome)
    \/ \E c \in Calls : BgEmbedSettlesRun(c)
    \/ \E c \in Calls, ok \in BOOLEAN : SaveSettles(c, ok)

SpecConc == InitConc /\ [][NextConc]_vars

(***************************************************************************)
(* The program with an environment that answers: every fetch, embedder and *)
(* serializer call that is pending is eventually answered, and code that   *)
(* can run (the continuation of an await, the drawing block) eventually    *)
(* runs.  The clicks of the user are under no such obligation.             *)
(***************************************************************************)
\* a step of invocation c or of the handleDownload run that awaits it
StepOf(c) ==
    \/ CreateDoc(c)
    \/ \E outcome \in FetchOutcomes : FontFetchSettles(c, outcome)
    \/ FontEmbedSettles(c)
    \/ \E outcome \in FetchOutcomes : BgFetchSettles(c, outcome)
    \/ BgEmbedSettles(c)
    \/ DrawRitualPage(c)
    \/ DrawContentPage(c)
    \/ DrawDedicationPage(c)
    \/ DrawThrows(c)
    \/ \E ok \in BOOLEAN : SaveSettles(c, ok)
    \/ HandleDownloadResume(c)

\* at most one kind of step of c is possible at a time (gen[c].pc decides),
\* so that one fairness condition for c stands for one on each of them
Responsive(c) == WF_vars(StepOf(c))

\* the sutras followed: no content page, one, two
LiveSutras == {0, 1, 301}

InitLive ==
    /\ InitLayout
    /\ selectedSutra \in {<<>>} \cup {<<id>> : id \in LiveSutras}

SpecLive == InitLive /\ [][Next]_vars /\ \A c \in Calls : Responsive(c)

(***************************************************************************)
(* The upload of a custom background (App.tsx): handleFileSelect, the      *)
(* onload of its FileReader, handleRemoveCustomBg                          *)
(***************************************************************************)
\* MIME types of the files a user can pick: image/png, image/svg+xml,
\* text/plain, image (no subtype), the empty type of an unknown file
FileTypes ==
    { <<"i", "m", "a", "g", "e", "/", "p", "n", "g">>,
      <<"i", "m", "a", "g", "e", "/", "s", "v", "g", "+", "x", "m", "l">>,
      <<"t", "e", "x", "t", "/", "p", "l", "a", "i", "n">>,
      <<"i", "m", "a", "g", "e">>,
      <<>> }

\* 5 * 1024 * 1024
MaxUploadSize == 5 * 1024 * 1024

\* sizes in bytes: an empty file, the limit, one byte more
FileSizes == {0, MaxUploadSize, MaxUploadSize + 1}

Files == [type : FileTypes, size : FileSizes]

\* String.prototype.startsWith
StartsWith(str, prefix) ==
    /\ Len(str) >= Len(prefix)
    /\ SubSeq(str, 1, Len(prefix)) = prefix

\* faulty variant of FileVerdict: a file of exactly the limit is refused
FileVerdictBelowLimit(file) ==
    IF ~StartsWith(file.type, <<"i", "m", "a", "g", "e", "/">>) THEN "notImage"
    ELSE IF file.size >= MaxUploadSize THEN "tooLarge"
    ELSE "read"

\* the two checks of handleFileSelect, in their order
FileVerdict(file) ==
    IF ~StartsWith(file.type, <<"i", "m", "a", "g", "e", "/">>) THEN "notImage"
    ELSE IF file.size > MaxUploadSize THEN "tooLarge"
    ELSE "read"

\* the result of reader.readAsDataURL(file): a data URI of the file's type
\* and content (the content of a model file is given by its size)
ReadAsDataURL(file) == <<"data:", file.type, ";base64,", file.size>>

InitUpload ==
    /\ selectedSutra = <<>>
    /\ config = DEFAULT_CONFIG
    /\ customBgImage = <<>>
    /\ isDownloading = FALSE
    /\ gen = [c \in Calls |-> IdleCall]
    /\ alertShown = <<>>
    /\ downloadStarted = <<>>
    /\ reading = <<>>
    /\ layout = NoLayout(PageWidth, PageHeight)
    /\ RestInit

\* the change event of the file input; picked is event.target.files?.[0],
\* <<>> when the dialog was left without a file
HandleFileSelect(picked) ==
    /\ app.mounted
    /\ IF picked = <<>>
       THEN UNCHANGED vars
       ELSE LET file == picked[1] IN
            CASE FileVerdict(file) = "notImage" ->
                     /\ alertShown' = <<[text |-> "please choose an image file"]>>
                     /\ UNCHANGED <<selectedSutra, config, customBgImage, isDownloading,
                                    gen, downloadStarted, reading, layout>>
                     /\ RestUnchanged
              [] FileVerdict(file) = "tooLarge" ->
                     /\ alertShown' = <<[text |-> "the image file must not exceed 5MB"]>>
                     /\ UNCHANGED <<selectedSutra, config, customBgImage, isDownloading,
                                    gen, downloadStarted, reading, layout>>
                     /\ RestUnchanged
              [] FileVerdict(file) = "read" ->
                     /\ Len(reading) < MaxReads
                     /\ reading' = Append(reading, file)
                     /\ UNCHANGED <<selectedSutra, config, customBgImage, isDownloading,
                                    gen, alertShown, downloadStarted, layout>>
                     /\ RestUnchanged

\* reader.onload of a reader that reads file: setCustomBgImage(result)
ReaderOnLoad(file) ==
    /\ \E i \in DOMAIN reading :
           /\ reading[i] = file
           /\ reading' = SubSeq(reading, 1, i - 1) \o SubSeq(reading, i + 1, Len(reading))
    /\ \E w \in {Callback(World, SetState("customBgImage", "set", <<ReadAsDataURL(file)>>))} : Commit(w)
    /\ app' = [app EXCEPT !.touched = TRUE]
    /\ UNCHANGED <<selectedSutra, config, isDownloading, gen, alertShown,
                   downloadStarted, layout, previewPage, today>>

\* a click on the remove button: setCustomBgImage(null)
HandleRemoveCustomBg ==
    /\ app.mounted
    /\ \E w \in {DiscreteEvent(World, SetState("customBgImage", "set", <<>>))} : Commit(w)
    /\ app' = [app EXCEPT !.touched = TRUE]
    /\ UNCHANGED <<selectedSutra, config, isDownloading, gen, alertShown,
                   downloadStarted, reading, layout, previewPage, today>>

\* React runs the next pending passive effect
RunPassiveEffect ==
    /\ effects # <<>>
    /\ \E w \in {RunNextEffect(World)} : Commit(w)
    /\ UNCHANGED <<selectedSutra, config, isDownloading, gen, alertShown,
                   downloadStarted, reading, layout, previewPage, today, app>>

NextUpload ==
    \/ \E picked \in {<<>>} \cup {<<file>> : file \in Files} : HandleFileSelect(picked)
    \/ \E file \in Files : ReaderOnLoad(file)
    \/ HandleRemoveCustomBg
    \/ RunPassiveEffect

\* every read that was started ends with its load event
SpecUpload ==
    InitUpload /\ [][NextUpload]_vars /\ \A file \in Files : WF_vars(ReaderOnLoad(file))

(***************************************************************************)
(* The pagination of the preview (App.tsx, the detail view): the click on  *)
(* a sutra card, the previous and next buttons, the settings beside them   *)
(***************************************************************************)
InitPreview ==
    /\ selectedSutra = <<>>
    /\ config = DEFAULT_CONFIG
    /\ customBgImage = <<>>
    /\ isDownloading = FALSE
    /\ gen = [c \in Calls |-> IdleCall]
    /\ alertShown = <<>>
    /\ downloadStarted = <<>>
    /\ reading = <<>>
    /\ layout = NoLayout(PageWidth, PageHeight)
    /\ RestInit

PreviewUnchanged ==
    UNCHANGED <<customBgImage, isDownloading, gen, alertShown, downloadStarted,
                reading, layout, dailyStats, isTimerRunning, timer, today,
                storage, updates, effects, app>>

\* the click on the card of a sutra: setSelectedSutra(sutra);
\* setPreviewPage(1); setView('detail')
SelectSutra(id) ==
    /\ selectedSutra' = <<id>>
    /\ previewPage' = 1
    /\ UNCHANGED config
    /\ PreviewUnchanged

\* disabled={previewPage === 1}
PreviousPageDisabled == previewPage = 1

\* faulty variant of NextPageDisabled: the button is never disabled
NextPageNeverDisabled == FALSE

\* disabled={previewPage >= Math.ceil(... .length / 300)}
NextPageDisabled == previewPage >= PreviewTotalPages(Sutra(selectedSutra[1]))

\* Math.max(a, b)
MathMax(a, b) == IF a >= b THEN a ELSE b

\* the previous button of the preview: setPreviewPage(p => Math.max(1, p - 1))
PreviousPage ==
    /\ selectedSutra # <<>>
    /\ ~PreviousPageDisabled
    /\ previewPage' = MathMax(1, previewPage - 1)
    /\ UNCHANGED <<selectedSutra, config>>
    /\ PreviewUnchanged

\* the next button of the preview: setPreviewPage(p => p + 1); the pages
\* followed end one past the longest preview
NextPage ==
    /\ selectedSutra # <<>>
    /\ ~NextPageDisabled
    /\ previewPage <= MaxFullPages + 2
    /\ previewPage' = previewPage + 1
    /\ UNCHANGED <<selectedSutra, config>>
    /\ PreviewUnchanged

\* a control of the settings panel: setConfig({ ...config, [field]: value })
SetConfig(field, value) ==
    /\ selectedSutra # <<>>
    /\ config' = [config EXCEPT ![field] = value]
    /\ UNCHANGED <<selectedSutra, previewPage>>
    /\ PreviewUnchanged

NextPreview ==
    \/ \E id \in SutraIds : SelectSutra(id)
    \/ PreviousPage
    \/ NextPage
    \/ \E t \in ThemeType : SetConfig("theme", t)
    \/ \E f \in FontType : SetConfig("font", f)
    \/ \E c \in TracingColor : SetConfig("tracingColor", c)
    \/ \E o \in TracingOpacities : SetConfig("tracingOpacity", o)

SpecPreview == InitPreview /\ [][NextPreview]_vars

(***************************************************************************)
(* The page: createRoot(...).render(<StrictMode>...<App />) and a reload   *)
(***************************************************************************)
\* faulty variant of MountEffects: the effect that saves the custom
\* background is declared before the one that loads it
MountEffectsSaveFirst ==
    << Effect("saveCustomBg", <<>>), Effect("loadCustomBg", <<>>),
       Effect("loadStats", <<>>), Effect("saveStats", NoStats),
       Effect("timer", FALSE) >>

\* the effects of App that touch the modelled state, in the order of their
\* declaration, with the values of the first render
MountEffects ==
    << Effect("loadCustomBg", <<>>), Effect("saveCustomBg", <<>>),
       Effect("loadStats", <<>>), Effect("saveStats", NoStats),
       Effect("timer", FALSE) >>

\* the first render of App: every state has its initial value and every
\* effect is pending; under StrictMode (a development build) React runs the
\* effects of the mount a second time, with the same closures
Mount ==
    /\ ~app.mounted
    /\ app' = [app EXCEPT !.mounted = TRUE, !.restored = storage.bg,
                          !.touched = FALSE]
    /\ selectedSutra' = <<>>
    /\ config' = DEFAULT_CONFIG
    /\ isDownloading' = FALSE
    /\ previewPage' = 1
    /\ customBgImage' = <<>>
    /\ dailyStats' = NoStats
    /\ isTimerRunning' = FALSE
    /\ updates' = <<>>
    /\ effects' = MountEffects \o (IF app.strict THEN MountEffects ELSE <<>>)
    /\ UNCHANGED <<gen, alertShown, downloadStarted, reading, layout, timer,
                   today, storage>>

\* the page is reloaded or closed: the state of App, its queued updates,
\* pending effects, intervals and file readers are gone, localStorage stays
Reload ==
    /\ app.mounted
    /\ app' = [app EXCEPT !.mounted = FALSE]
    /\ customBgImage' = <<>>
    /\ dailyStats' = NoStats
    /\ isTimerRunning' = FALSE
    /\ timer' = [active |-> {}, interval |-> <<>>]
    /\ updates' = <<>>
    /\ effects' = <<>>
    /\ reading' = <<>>
    /\ UNCHANGED <<selectedSutra, config, isDownloading, gen, alertShown,
                   downloadStarted, layout, previewPage, today, storage>>

\* React renders the updates that effects have queued
RenderQueued ==
    /\ app.mounted
    /\ updates # <<>>
    /\ \E w \in {Render(FlushPassiveEffects(World))} : Commit(w)
    /\ UNCHANGED <<selectedSutra, config, isDownloading, gen, alertShown,
                   downloadStarted, reading, layout, previewPage, today, app>>

\* a page that is opened for the first time: nothing is stored; the build
\* is a development build (StrictMode doubles the effects) or not
InitPage ==
    /\ selectedSutra = <<>>
    /\ config = DEFAULT_CONFIG
    /\ customBgImage = <<>>
    /\ isDownloading = FALSE
    /\ gen = [c \in Calls |-> IdleCall]
    /\ alertShown = <<>>
    /\ downloadStarted = <<>>
    /\ reading = <<>>
    /\ layout = NoLayout(PageWidth, PageHeight)
    /\ previewPage = 1
    /\ dailyStats = NoStats
    /\ isTimerRunning = FALSE
    /\ timer = [active |-> {}, interval |-> <<>>]
    /\ today = 1
    /\ storage = [stats |-> <<>>, bg |-> <<>>]
    /\ updates = <<>>
    /\ effects = <<>>
    /\ app \in [mounted : {FALSE}, strict : BOOLEAN, restored : {<<>>},
                touched : {FALSE}]

(***************************************************************************)
(* The practice view (App.tsx): the timer button, the interval callback,   *)
(* the calendar                                                            *)
(***************************************************************************)
PracticeUnchanged ==
    UNCHANGED <<selectedSutra, config, isDownloading, gen, alertShown,
                downloadStarted, reading, layout, previewPage, today, app>>

\* the click on the start/pause button: setIsTimerRunning(!isTimerRunning)
ToggleTimer ==
    /\ app.mounted
    /\ \E w \in {DiscreteEvent(World, SetState("isTimerRunning", "set",
                                              ~isTimerRunning))} : Commit(w)
    /\ PracticeUnchanged

\* const todayStr = getLocalDateString()
todayStr == getLocalDateString(Days[today])

\* the callback of the interval id, once a second: the seconds followed per
\* date end at MaxSeconds
Tick(id) ==
    /\ id \in timer.active
    /\ todayStr \in ObjectKeys(dailyStats) => dailyStats[todayStr] < MaxSeconds
    /\ \E w \in {Callback(World, SetState("dailyStats", "tick", todayStr))} :
           Commit(w)
    /\ PracticeUnchanged

\* the dates of the calendar: the days up to today (the model has no
\* history of more than Len(Days) of its 28)
CalendarDates == {getLocalDateString(Days[i]) : i \in 1..today}

\* const isChecked = dateStr in dailyStats
isChecked(dateStr) == dateStr \in ObjectKeys(dailyStats)

\* the click on the calendar cell of dateStr: toggleCheckin(dateStr)
ToggleCheckinClick(dateStr) ==
    /\ app.mounted
    /\ dateStr \in CalendarDates
    /\ \E w \in {DiscreteEvent(World, SetState("dailyStats", "toggleCheckin",
                                              dateStr))} : Commit(w)
    /\ PracticeUnchanged

\* the local date changes
Midnight ==
    /\ today < Len(Days)
    /\ today' = today + 1
    /\ UNCHANGED <<selectedSutra, config, customBgImage, isDownloading, gen,
                   alertShown, downloadStarted, reading, layout, previewPage,
                   dailyStats, isTimerRunning, timer, storage, updates,
                   effects, app>>

NextPractice ==
    \/ Mount
    \/ RunPassiveEffect
    \/ RenderQueued
    \/ ToggleTimer
    \/ \E id \in timer.active : Tick(id)
    \/ \E dateStr \in CalendarDates : ToggleCheckinClick(dateStr)
    \/ Midnight
    \/ Reload

SpecPractice == InitPage /\ [][NextPractice]_vars

(***************************************************************************)
(* The custom background across visits: the upload handlers, the effects   *)
(* that load and save 'yuanbao_custom_bg', reloads                         *)
(***************************************************************************)
NextBackground ==
    \/ Mount
    \/ RunPassiveEffect
    \/ RenderQueued
    \/ \E picked \in {<<>>} \cup {<<file>> : file \in Files} : HandleFileSelect(picked)
    \/ \E file \in Files : ReaderOnLoad(file)
    \/ HandleRemoveCustomBg
    \/ Reload

SpecBackground == InitPage /\ [][NextBackground]_vars

(***************************************************************************)
(* Vocabulary of the properties                                            *)
(***************************************************************************)
\* the number of printable characters of sutra id, counted on the raw text
CorpusLength(id) ==
    Cardinality({j \in DOMAIN ContentFull(id) : ContentFull(id)[j] > 0})

\* ceil(L / K) by its defining property: the least n with n * K >= L
CeilOf(L, K) == CHOOSE n \in 0..L : n * K >= L /\ (n = 0 \/ (n - 1) * K < L)

\* the slots that hold an invocation
Started == {c \in Calls : gen[c].pc # "idle"}
\* the invocations past the sutra pages loop
PastLoop == {c \in Started : gen[c].pc \in {"dedication", "save", "resolved"}}
Resolved == {c \in Calls : gen[c].pc = "resolved"}
Rejected == {c \in Calls : gen[c].pc = "rejected"}

LengthOf(c) == CorpusLength(gen[c].sutra[1])
KindsOf(pages) == [i \in 1..Len(pages) |-> pages[i].kind]
ContentPagesOf(pages) == SelectSeq(pages, LAMBDA pg : pg.kind = "content")

(***************************************************************************)
(* C1                                                                      *)
(***************************************************************************)
\* C1: once the sutra pages loop of an invocation is over, the number of
\* content pages it has drawn is ceil(L / 300), L the number of printable
\* characters of the sutra's text.
C1_ContentPageCount ==
    \A c \in PastLoop :
        Len(ContentPagesOf(gen[c].pages)) = CeilOf(LengthOf(c), 300)

\* C1 witness: an invocation resolved for a 301-character corpus, two content pages
C1_Witness ==
    \E c \in Resolved :
        LengthOf(c) = 301 /\ Len(ContentPagesOf(gen[c].result[1])) = 2

(***************************************************************************)
(* C2                                                                      *)
(***************************************************************************)
\* C2: an invocation for an empty stripped corpus whose font was embedded draws
\* no content page, and the document it resolves with holds exactly two
\* pages, the ritual page and then the dedication page.
C2_EmptyCorpusTwoPages ==
    \A c \in Started :
        LengthOf(c) = 0 =>
            /\ ContentPagesOf(gen[c].pages) = <<>>
            /\ gen[c].pc \in {"save", "resolved"} =>
                   KindsOf(gen[c].pages) = <<"ritual", "dedication">>
            /\ gen[c].pc = "resolved" =>
                   KindsOf(gen[c].result[1]) = <<"ritual", "dedication">>

\* C2 witness: a resolved invocation for the whitespace-only text
C2_Witness ==
    \E c \in Resolved :
        /\ LengthOf(c) = 0
        /\ gen[c].customFont # <<>>
        /\ Len(gen[c].result[1]) = 2

(***************************************************************************)
(* C3                                                                      *)
(***************************************************************************)
\* C3 as stated: totalPages (PageCount) is >= 1 for every corpus, the empty
\* one included.
C3_PageCountAtLeastOne ==
    \A c \in Started : gen[c].totalPages # <<>> => gen[c].totalPages[1] >= 1

\* C3 amended: totalPages is >= 0; it is >= 1 exactly for a non-empty corpus
\* and 0 for the empty one, whose document still holds the ritual and the
\* dedication page.
C3_PageCountZeroOnlyForEmpty ==
    \A c \in Started :
        gen[c].totalPages # <<>> =>
            /\ gen[c].totalPages[1] >= 0
            /\ gen[c].totalPages[1] >= 1 <=> LengthOf(c) >= 1
            /\ gen[c].pc = "resolved" => Len(gen[c].result[1]) >= 2

\* C3 witness: grid setup done for the empty corpus, totalPages = 0
C3_Witness ==
    \E c \in Started :
        LengthOf(c) = 0 /\ gen[c].totalPages = <<0>> /\ gen[c].pc = "resolved"

(***************************************************************************)
(* C4                                                                      *)
(***************************************************************************)
\* C4: a document an invocation resolves with holds N + 2 pages, N =
\* ceil(L / 300): the ritual page first, then the N content pages in
\* increasing page index (page number i and the characters from i * 300 on),
\* the dedication page last; every page measures 841.89 x 595.28.
C4_PageOrderAndSize ==
    \A c \in Resolved :
        LET doc == gen[c].result[1]
            N   == CeilOf(LengthOf(c), 300)
        IN  /\ Len(doc) = N + 2
            /\ doc[1].kind = "ritual"
            /\ doc[Len(doc)].kind = "dedication"
            /\ \A i \in 2..(Len(doc) - 1) :
                   /\ doc[i].kind = "content"
                   /\ doc[i].footer # <<>>
                   /\ doc[i].footer[1].pageNumber = i - 1
                   /\ doc[i].glyphs # <<>>
                   /\ doc[i].glyphs[1].char = (i - 2) * 300 + 1
            /\ \A i \in 1..Len(doc) : doc[i].size = <<5051340, 3571680>>

\* C4 witness: a resolved document with three content pages between the two
C4_Witness ==
    \E c \in Resolved :
        KindsOf(gen[c].result[1]) =
            <<"ritual", "content", "content", "content", "dedication">>

(***************************************************************************)
(* C5                                                                      *)
(***************************************************************************)
\* the successions of positions the stated state machine allows: document
\* created -> font fetched -> font embedded -> background fetched and
\* embedded, or skipped -> ritual page -> content pages -> dedication page ->
\* serialized, with a rejection as the only other way out
C5_Order ==
    { <<"idle", "create">>, <<"create", "fontFetch">>,
      <<"fontFetch", "fontEmbed">>, <<"fontFetch", "rejected">>,
      <<"fontEmbed", "bgFetch">>, <<"fontEmbed", "rejected">>,
      <<"bgFetch", "bgEmbed">>, <<"bgFetch", "ritual">>,
      <<"bgEmbed", "ritual">>,
      <<"ritual", "content">>, <<"ritual", "dedication">>, <<"ritual", "rejected">>,
      <<"content", "content">>, <<"content", "dedication">>,
      <<"content", "rejected">>,
      <<"dedication", "save">>, <<"dedication", "rejected">>,
      <<"save", "resolved">>, <<"save", "rejected">>,
      <<"resolved", "idle">>, <<"rejected", "idle">> }

C5_Step ==
    \A c \in Calls :
        LET a == gen[c]
            b == gen'[c]
        IN  a # b =>
            \* every step follows the order
            /\ <<a.pc, b.pc>> \in C5_Order
            \* the loop is the only repetition, and it advances: page p, then p + 1
            /\ (a.pc = "content" /\ b.pc \in {"content", "dedication"}) =>
                   /\ b.p = a.p + 1
                   /\ b.p <= a.totalPages[1]
                   /\ b.pc = "dedication" <=> b.p = a.totalPages[1]
            \* a step fetches at most one url, and never one it fetched before
            /\ b.pc # "idle" =>
                   \/ b.fetched = a.fetched
                   \/ /\ Len(b.fetched) = Len(a.fetched) + 1
                      /\ SubSeq(b.fetched, 1, Len(a.fetched)) = a.fetched
                      /\ \A i \in 1..Len(a.fetched) :
                             a.fetched[i] # b.fetched[Len(b.fetched)]
            \* a fetch is issued only by the step that loads the resource
            /\ (b.pc # "idle" /\ b.fetched # a.fetched) =>
                   b.pc \in {"fontFetch", "bgFetch"}
            \* a page is added only with the font embedded, one page a step,
            \* by the step of its kind
            /\ b.pages # <<>> => b.customFont # <<>>
            /\ (b.pc # "idle" /\ b.pages # a.pages) =>
                   /\ a.pc \in {"ritual", "content", "dedication"}
                   /\ Len(b.pages) = Len(a.pages) + 1
                   /\ SubSeq(b.pages, 1, Len(a.pages)) = a.pages
                   /\ b.pages[Len(b.pages)].kind = a.pc
            /\ (a.pc \in {"ritual", "content", "dedication"} /\ b.pc # "rejected") =>
                   Len(b.pages) = Len(a.pages) + 1

\* C5: every step of an invocation follows the order Init -> FontLoaded ->
\* BackgroundLoaded | BackgroundSkipped -> RitualPageDrawn -> ContentPagesDrawn
\* -> DedicationPageDrawn -> Serialized; no step runs twice, no url is fetched
\* twice, and no page is added before the font is embedded.
C5_StepOrder == [][C5_Step]_vars

\* C5 witness: an invocation went through every step, background embedded,
\* two content pages, and resolved
C5_Witness ==
    \E c \in Resolved :
        /\ gen[c].bgImage # <<>>
        /\ Len(gen[c].fetched) = 2
        /\ KindsOf(gen[c].pages) = <<"ritual", "content", "content", "dedication">>

(***************************************************************************)
(* C6                                                                      *)
(***************************************************************************)
\* the font of invocation c could not be fetched, or its bytes were refused
\* by the embedder
FontFailed(c) ==
    \/ \E i \in 1..Len(gen[c].console) : gen[c].console[i] = "Font loading error"
    \/ /\ gen[c].fontBytes # <<>>
       /\ ~gen[c].fontBytes[1].valid
       /\ gen[c].pc # "fontEmbed"

BgFailed(c) ==
    \/ \E i \in 1..Len(gen[c].console) : gen[c].console[i] = "Image loading error"
    \/ /\ gen[c].imageBytes # <<>>
       /\ ~gen[c].imageBytes[1].valid
       /\ gen[c].pc # "bgEmbed"

\* C7: an invocation whose background fetch or embedding failed goes on with
\* no background image: it is at or past the ritual page, the failure is never
\* the error it rejects with, no page it adds has a background, and the
\* document it resolves with holds the ritual page, all ceil(L / 300) content
\* pages and the dedication page.
C7_BackgroundFailureIsSkipped ==
    \A c \in Started :
        BgFailed(c) =>
            /\ gen[c].bgImage = <<>>
            /\ gen[c].pc \in {"ritual", "content", "dedication", "save",
                              "resolved", "rejected"}
            /\ gen[c].pc = "rejected" =>
                   gen[c].error[1].name \in {"DrawError", "SerializationError"}
            /\ \A i \in 1..Len(gen[c].pages) : gen[c].pages[i].bg = <<>>
            /\ gen[c].pc = "resolved" =>
                   /\ gen[c].result # <<>>
                   /\ Len(gen[c].result[1]) = CeilOf(LengthOf(c), 300) + 2
                   /\ \A i \in 1..Len(gen[c].result[1]) :
                          gen[c].result[1][i].bg = <<>>

\* C7 witness: resolved with two content pages after the image fetch failed
C7_Witness ==
    \E c \in Resolved :
        /\ BgFailed(c)
        /\ gen[c].imageBytes = <<>>
        /\ Len(gen[c].result[1]) = 4

(***************************************************************************)
(* C8                                                                      *)
(***************************************************************************)
C8_Step ==
    \A c \in Calls :
        LET a == gen[c]
            b == gen'[c]
        IN  \* an error is set exactly with the rejection, and with no result
            /\ b.error # <<>> <=> b.pc = "rejected"
            /\ b.pc = "rejected" => b.result = <<>>
            /\ b.result # <<>> <=> b.pc = "resolved"
            \* a font failure is never survived: only background failures are
            /\ (\E i \in 1..Len(b.console) :
                    b.console[i] \in {"Font loading error",
                                      "Custom font failed to load"})
                   => b.pc = "rejected"
            \* handleDownload after a rejection: no download, the error shown
            /\ (a.pc = "rejected" /\ b.pc # "rejected") =>
                   /\ downloadStarted' = <<>>
                   /\ alertShown' # <<>>
                   /\ alertShown'[1].message = a.error[1]
                   /\ isDownloading' = FALSE
            \* handleDownload after a resolution: the document, no alert
            /\ (a.pc = "resolved" /\ b.pc # "resolved") =>
                   /\ alertShown' = <<>>
                   /\ downloadStarted' # <<>>
                   /\ downloadStarted'[1].bytes = a.result[1]
                   /\ isDownloading' = FALSE

\* C8: a fatal failure (font, drawing, serializing) rejects the invocation
\* with an error and without a result; handleDownload then starts no
\* download and shows that error; a resolved invocation has seen no failure
\* but one of the background.
C8_AllOrNothing == [][C8_Step]_vars

\* C8 witness: handleDownload has shown the error of a failed save, and
\* started no download
C8_Witness ==
    /\ alertShown # <<>>
    /\ alertShown[1].message.name = "SerializationError"
    /\ downloadStarted = <<>>
    /\ ~isDownloading

(***************************************************************************)
(* C9                                                                      *)
(***************************************************************************)
\* C9 as stated: the background image an invocation embeds and draws is the
\* override handleDownload passed (customBgImage) when there is one, and
\* BACKGROUND_IMAGES[config.theme] when there is none.
C9_OverrideIsUsed ==
    \A c \in Started :
        LET expected == IF gen[c].extraArg # <<>> THEN gen[c].extraArg[1]
                        ELSE BACKGROUND_IMAGES(gen[c].config[1].theme)
        IN  /\ gen[c].bgImage # <<>> => gen[c].bgImage[1] = expected
            /\ \A i \in 1..Len(gen[c].pages) :
                   gen[c].pages[i].bg # <<>> =>
                       gen[c].pages[i].bg[1].image = expected

(***************************************************************************)
(* C10                                                                     *)
(***************************************************************************)
\* C10: the content page of index p (the page after the ritual page being
\* index 0) holds the characters p*300+1 .. min((p+1)*300, L) of the stripped
\* corpus, in order: 300 of them on every page but the last, and L - p*300 of
\* them, more than 0 and at most 300, on the last; so no page is empty, and
\* for L a multiple of 300 every page is full.
C10_PageSlices ==
    \A c \in Started :
        LET L  == LengthOf(c)
            N  == CeilOf(L, 300)
            cp == ContentPagesOf(gen[c].pages)
        IN  \A q \in 1..Len(cp) :
                LET p == q - 1
                    n == Len(cp[q].glyphs)
                IN  /\ p < N
                    /\ n = IF p < N - 1 THEN 300 ELSE L - p * 300
                    /\ 0 < n /\ n <= 300
                    /\ L % 300 = 0 => n = 300
                    /\ \A k \in 1..n : cp[q].glyphs[k].char = p * 300 + k

\* C10 witness: the last page of a 600-character corpus is full, and the last
\* page of a 301-character corpus holds one character
C10_Witness ==
    \E c \in Resolved :
        /\ LengthOf(c) = 600
        /\ Len(ContentPagesOf(gen[c].pages)) = 2
        /\ Len(gen[c].pages[3].glyphs) = 300
        /\ gen[c].pages[3].glyphs[300].char = 600

(***************************************************************************)
(* C11                                                                     *)
(***************************************************************************)
\* the content pages an invocation has drawn so far
DrawnContentPages(c) == ContentPagesOf(gen[c].pages)
\* the cells taken by the glyphs of a page
CellsOf(page) == {<<page.glyphs[k].col, page.glyphs[k].row>> : k \in DOMAIN page.glyphs}

\* C11: on every content page the character of page-local index i sits in the
\* cell (col, row) of the 20 x 15 grid with i = col * 15 + row: every
\* character is inside the grid, no two characters of a page share a cell,
\* and the 300 characters of a full page take every cell of the grid.
C11_CellsAreABijection ==
    \A c \in Started :
        \A n \in DOMAIN DrawnContentPages(c) :
            LET page == DrawnContentPages(c)[n] IN
            /\ \A k \in DOMAIN page.glyphs :
                   /\ page.glyphs[k].col \in 0..19
                   /\ page.glyphs[k].row \in 0..14
                   /\ page.glyphs[k].col * 15 + page.glyphs[k].row = k - 1
            /\ Cardinality(CellsOf(page)) = Len(page.glyphs)
            /\ Len(page.glyphs) = 300 => CellsOf(page) = (0..19) \X (0..14)

\* C11 witness: a full page of 300 characters and a last page of 299 drawn
C11_Witness ==
    \E c \in Resolved :
        /\ Len(DrawnContentPages(c)) = 2
        /\ Len(DrawnContentPages(c)[1].glyphs) = 300
        /\ Len(DrawnContentPages(c)[2].glyphs) = 299
        /\ <<19, 14>> \in CellsOf(DrawnContentPages(c)[1])
        /\ <<19, 14>> \notin CellsOf(DrawnContentPages(c)[2])

(***************************************************************************)
(* C12                                                                     *)
(***************************************************************************)
\* glyph h is drawn in the column of glyph g strictly below it, or in a column
\* strictly to the left of it (y grows upwards on a PDF page).  The relation
\* is a strict order, so it holds of any two glyphs of a sequence as soon as
\* it holds of every two consecutive ones.
BelowOrLeft(g, h) == (h.x = g.x /\ h.y < g.y) \/ h.x < g.x

\* C12: on every content page the characters run down the columns and the
\* columns run from right to left: the character of index 0 is in the
\* top-right cell (no character of the page lies further right or higher),
\* each later character lies below its predecessor in the same column or in
\* a column further left, and the second page of a 301-character corpus
\* holds exactly one character, in the top-right cell.
C12_ColumnMajorRightToLeft ==
    \A c \in Started :
        LET cps == DrawnContentPages(c) IN
        /\ \A n \in DOMAIN cps :
               LET g == cps[n].glyphs IN
               /\ \A k \in DOMAIN g :
                      /\ g[k].x <= g[1].x
                      /\ g[k].y <= g[1].y
                      /\ k > 1 => BelowOrLeft(g[1], g[k])
                      /\ k > 1 => BelowOrLeft(g[k - 1], g[k])
                      /\ k < Len(g) => BelowOrLeft(g[k], g[Len(g)])
               /\ Len(g) > 0 => g[1].col = 0 /\ g[1].row = 0
        /\ LengthOf(c) = 301 /\ c \in PastLoop =>
               /\ Len(cps) = 2
               /\ Len(cps[2].glyphs) = 1
               /\ cps[2].glyphs[1].char = 301
               /\ cps[2].glyphs[1].x = cps[1].glyphs[1].x
               /\ cps[2].glyphs[1].y = cps[1].glyphs[1].y

\* C12 witness: the 301-character corpus resolved; on its first page index 14
\* is at the foot of the rightmost column and index 15 at the head of the next
C12_Witness ==
    \E c \in Resolved :
        /\ LengthOf(c) = 301
        /\ Len(DrawnContentPages(c)[2].glyphs) = 1
        /\ LET g == DrawnContentPages(c)[1].glyphs IN
           /\ g[15].x = g[1].x /\ g[15].y < g[14].y
           /\ g[16].x < g[15].x /\ g[16].y = g[1].y

(***************************************************************************)
(* C13                                                                     *)
(***************************************************************************)
\* C13: for the 841.89 x 595.28 page, and for any page wider and higher than
\* twice the 60-point margin, the computed cell size is positive, the grid of
\* 20 x 15 cells lies within the margins (to 0.001 point, 6 units), and the
\* centre of the cell of every index 0..299 lies inside the grid rectangle.
\* On the 841.89 x 595.28 page the cell is 31.6853.. points, the grid starts
\* at x = 104.0916.. and y = 60.
C13_GridInsideMargins ==
    layout.cellSize # <<>> =>
        LET cs == layout.cellSize[1]
            sx == layout.startX[1]
            sy == layout.startY[1]
        IN  /\ cs > 0
            /\ sx >= 360000 - 6
            /\ sy >= 360000 - 6
            /\ sx + 20 * cs <= layout.width - 360000 + 6
            /\ sy + 15 * cs <= layout.height - 360000 + 6
            /\ layout.cell # <<>> =>
                   /\ sx < layout.cell[1].x /\ layout.cell[1].x < sx + 20 * cs
                   /\ sy < layout.cell[1].y /\ layout.cell[1].y < sy + 15 * cs
            /\ layout.width = 5051340 /\ layout.height = 3571680 =>
                   cs = 190112 /\ sx = 624550 /\ sy = 360000

\* C13 witness: the last index placed on the 841.89 x 595.28 page, and on a
\* page a tenth of a point larger than the margins
C13_Witness ==
    /\ layout.placed = 300
    /\ layout.cell # <<>>
    /\ \/ layout.width = 5051340 /\ layout.height = 3571680
       \/ layout.width = 720600 /\ layout.height = 720600

(***************************************************************************)
(* C14                                                                     *)
(***************************************************************************)
\* the rgb triple (in thousandths) the tracing colours stand for
TracingRgb(tc) ==
    IF tc = "red" THEN <<940, 270, 270>>
    ELSE IF tc = "gold" THEN <<830, 690, 220>>
    ELSE <<300, 300, 300>>

\* C14: the tracing settings of the configuration reach the glyphs and
\* nothing else: every glyph of every content page has the colour of
\* config.tracingColor and the opacity config.tracingOpacity / 100 (0 when
\* tracingOpacity is 0), while the grid lines keep opacity 0.3 and the footer
\* opacity 0.4 whatever the tracing settings are.
C14_TracingOnlyOnGlyphs ==
    \A c \in Started :
        \A n \in DOMAIN DrawnContentPages(c) :
            LET page == DrawnContentPages(c)[n]
                cfg == gen[c].config[1]
            IN  /\ \A k \in DOMAIN page.glyphs :
                       /\ page.glyphs[k].color = TracingRgb(cfg.tracingColor)
                       /\ page.glyphs[k].opacity * 100 = cfg.tracingOpacity * 1000
                       /\ cfg.tracingOpacity = 0 => page.glyphs[k].opacity = 0
                /\ page.grid[1].opacity = 300
                /\ page.footer[1].opacity = 400

\* C14 witness: a page whose glyphs are red and fully transparent, grid and
\* footer still visible
C14_Witness ==
    \E c \in Resolved :
        /\ gen[c].config[1].tracingColor = "red"
        /\ gen[c].config[1].tracingOpacity = 0
        /\ Len(DrawnContentPages(c)) > 0
        /\ DrawnContentPages(c)[1].glyphs[1].opacity = 0
        /\ DrawnContentPages(c)[1].grid[1].opacity = 300

(***************************************************************************)
(* C15                                                                     *)
(***************************************************************************)
\* C15: every content page carries exactly one footer, with the title of the
\* sutra and the page number p + 1 of its place among the content pages, so
\* that the numbers of a finished loop are 1..N without gap or repeat; the
\* ritual page and the dedication page carry no footer.
C15_FooterNumbersContentPages ==
    \A c \in Started :
        /\ \A k \in DOMAIN gen[c].pages :
               LET page == gen[c].pages[k] IN
               IF page.kind = "content"
               THEN /\ Len(page.footer) = 1
                    /\ page.footer[1].title = Sutra(gen[c].sutra[1]).title
                    /\ page.footer[1].pageNumber =
                           Len(ContentPagesOf(SubSeq(gen[c].pages, 1, k)))
               ELSE page.footer = <<>>
        /\ c \in PastLoop =>
               {DrawnContentPages(c)[n].footer[1].pageNumber :
                    n \in DOMAIN DrawnContentPages(c)}
                 = 1..CeilOf(LengthOf(c), 300)

\* C15 witness: a resolved document ritual, content 1, content 2, content 3,
\* dedication
C15_Witness ==
    \E c \in Resolved :
        /\ Len(gen[c].result[1]) = 5
        /\ gen[c].result[1][1].footer = <<>>
        /\ gen[c].result[1][2].footer[1].pageNumber = 1
        /\ gen[c].result[1][4].footer[1].pageNumber = 3
        /\ gen[c].result[1][5].footer = <<>>

(***************************************************************************)
(* C16                                                                     *)
(***************************************************************************)
\* the invocations whose block has run to the call of save()
Drawn == {c \in Calls : gen[c].pc \in {"save", "resolved"}}

CharsOnPage(L, n) == IF L - (n - 1) * 300 < 300 THEN L - (n - 1) * 300 ELSE 300

\* what invocation c has done is what its own arguments ask for
Alone(c) ==
    LET cfg == gen[c].config[1]
        L == LengthOf(c)
        cps == DrawnContentPages(c)
    IN  /\ gen[c].pc \notin {"idle", "create"} =>
               /\ Len(gen[c].fetched) \in {1, 2}
               /\ gen[c].fetched[1] = FullUrl(FONT_PATHS(cfg.font))
        /\ gen[c].customFont # <<>> =>
               /\ Len(gen[c].fetched) = 2
               /\ gen[c].fetched[2] = FullUrl(BACKGROUND_IMAGES(cfg.theme))
        /\ gen[c].pc = "rejected" /\ gen[c].customFont = <<>> =>
               gen[c].error = <<FontLoadError(cfg)>>
        /\ c \in Drawn =>
               /\ gen[c].bgImage \in {<<>>, <<BACKGROUND_IMAGES(cfg.theme)>>}
               /\ KindsOf(gen[c].pages) =
                      <<"ritual">> \o [n \in 1..CeilOf(L, 300) |-> "content"]
                                   \o <<"dedication">>
               /\ \A n \in DOMAIN cps :
                      /\ Len(cps[n].glyphs) = CharsOnPage(L, n)
                      /\ cps[n].footer[1].title = SutraTitle(gen[c].sutra[1])
                      /\ \A k \in DOMAIN cps[n].glyphs :
                             /\ cps[n].glyphs[k].char = (n - 1) * 300 + k
                             /\ cps[n].glyphs[k].col * 15 + cps[n].glyphs[k].row = k - 1
                             /\ cps[n].glyphs[k].color = TracingRgb(cfg.tracingColor)
               /\ \A k \in DOMAIN gen[c].pages :
                      gen[c].pages[k].bg = <<>> <=> gen[c].bgImage = <<>>

\* a step of one invocation leaves the other invocations as they are
OthersUntouched ==
    \A c \in Calls :
        gen'[c] # gen[c] => \A d \in Calls \ {c} : gen'[d] = gen[d]

\* C17: when invocations overlap and interleave at their awaits, each one
\* does its own font fetch and its own image fetch, each one draws exactly
\* the document its own arguments ask for, and no step of one invocation, a
\* font rejection or a background failure included, changes another.
C17_OverlappingCallsAreIndependent ==
    /\ [](\A c \in Calls : Alone(c))
    /\ [][OthersUntouched]_vars

\* C17 witness: while one invocation waits for its image, another one, begun
\* for another sutra, has drawn its four pages and waits for save()
C17_Witness ==
    \E c \in Calls : \E d \in Calls :
        /\ gen[c].pc = "bgFetch" /\ gen[c].sutra = <<1>>
        /\ gen[d].pc = "save" /\ gen[d].sutra = <<301>>
        /\ Len(gen[d].pages) = 4

(***************************************************************************)
(* C18                                                                     *)
(***************************************************************************)
\* invocation c is pending: called and not settled
Pending(c) == gen[c].pc \notin {"idle", "resolved", "rejected"}
Settled(c) == gen[c].pc \in {"resolved", "rejected"}

\* an invocation that waits for a fetch is moved by the answer to that fetch
\* and by nothing else, and handleDownload stays in its downloading state
OnlyTheAnswerMoves ==
    \A c \in Calls :
        gen[c].pc \in {"fontFetch", "bgFetch"} =>
            /\ isDownloading /\ isDownloading'
            /\ gen'[c] # gen[c] =>
                   \E outcome \in FetchOutcomes :
                       \/ FontFetchSettles(c, outcome)
                       \/ BgFetchSettles(c, outcome)

\* C18: when the font fetch, the image fetch and the serializer each answer
\* in the end, every invocation that was started resolves or rejects, and
\* handleDownload then leaves its downloading state; an invocation that
\* waits for a fetch is completed or failed by the answer to it only (there
\* is no timeout and no cancellation), and handleDownload stays in its
\* downloading state as long as the invocation is pending.
C18_SettlesIfAnswered ==
    /\ \A c \in Calls : Pending(c) ~> Settled(c)
    /\ isDownloading ~> ~isDownloading
    /\ [](\A c \in Calls : Pending(c) => isDownloading)
    /\ [][OnlyTheAnswerMoves]_vars

\* C18 witness: handleDownload is back from an invocation that settled, with
\* an alert or a download, and has left its downloading state
C18_Witness ==
    /\ ~isDownloading
    /\ gen[1].pc = "idle"
    /\ alertShown # <<>> \/ downloadStarted # <<>>

(***************************************************************************)
(* C19                                                                     *)
(***************************************************************************)
\* C19: the preview paginates as the generator does: for the selected sutra
\* the total the preview shows is the number of content pages the generator
\* draws, and for every page number n of 1..total the characters the preview
\* shows for previewPage = n are the characters of the n-th content page, in
\* the same order and in the same cells (columns from the right, rows from
\* the top).
C19_PreviewMatchesGenerator ==
    \A c \in PastLoop :
        gen[c].sutra = selectedSutra =>
            LET sutra == Sutra(selectedSutra[1])
                cps == DrawnContentPages(c)
            IN  /\ PreviewTotalPages(sutra) = Len(cps)
                /\ \A n \in 1..Len(cps) :
                       /\ PreviewPageChars(sutra, n) =
                              [k \in 1..Len(cps[n].glyphs) |-> cps[n].glyphs[k].char]
                       /\ \A k \in DOMAIN cps[n].glyphs :
                              /\ PreviewCell(k - 1).col = cps[n].glyphs[k].col
                              /\ PreviewCell(k - 1).row = cps[n].glyphs[k].row

\* C19 witness: the 600-character sutra, whose text carries whitespace, drawn
\* on two content pages; the preview shows 2 pages, the second from
\* character 301 to character 600
C19_Witness ==
    \E c \in Resolved :
        /\ gen[c].sutra = selectedSutra
        /\ selectedSutra = <<600>>
        /\ Len(DrawnContentPages(c)) = 2
        /\ PreviewTotalPages(Sutra(600)) = 2
        /\ PreviewPageChars(Sutra(600), 2)[1] = 301
        /\ PreviewPageChars(Sutra(600), 2)[300] = 600

(***************************************************************************)
(* C20                                                                     *)
(***************************************************************************)
\* a file handleFileSelect is to accept: a type that begins with "image/"
\* and at most 5 * 1024 * 1024 = 5242880 bytes
Acceptable(file) ==
    /\ Len(file.type) >= 6
    /\ SubSeq(file.type, 1, 6) = <<"i", "m", "a", "g", "e", "/">>
    /\ file.size <= 5242880

BeingRead(file) == \E i \in DOMAIN reading : reading[i] = file

\* handleFileSelect for a file that is not acceptable changes neither
\* customBgImage nor the reads in flight; for an acceptable file it starts a
\* read of that file and leaves customBgImage to the load event
SelectStep ==
    \A file \in Files :
        HandleFileSelect(<<file>>) =>
            IF Acceptable(file)
            THEN reading' = Append(reading, file) /\ customBgImage' = customBgImage
            ELSE reading' = reading /\ customBgImage' = customBgImage

\* C20: handleFileSelect enforces the upload limits: a file whose type does
\* not begin with "image/" or whose size is above 5 * 1024 * 1024 bytes
\* leaves customBgImage as it is and starts no read, so that only acceptable
\* files are ever read or shown; a file of an image/* type of at most 5MB
\* is read, and customBgImage eventually is its data URI.
C20_UploadLimits ==
    /\ [][SelectStep]_vars
    /\ [](\A i \in DOMAIN reading : Acceptable(reading[i]))
    /\ [](customBgImage # <<>> =>
             \E file \in Files :
                 Acceptable(file) /\ customBgImage = <<ReadAsDataURL(file)>>)
    /\ \A file \in {f \in Files : Acceptable(f)} :
           BeingRead(file) ~> (customBgImage = <<ReadAsDataURL(file)>>)

\* C20 witness: an image/svg+xml file of exactly 5 * 1024 * 1024 bytes has
\* become the custom background, after a file was refused with an alert
C20_Witness ==
    /\ customBgImage =
          <<ReadAsDataURL([type |-> <<"i", "m", "a", "g", "e", "/", "s", "v", "g",
                                      "+", "x", "m", "l">>,
                           size |-> 5242880])>>
    /\ alertShown # <<>>
    /\ reading = <<>>

(***************************************************************************)
(* C23                                                                     *)
(***************************************************************************)
\* the characters of the glyphs of a sequence of pages, page after page
RECURSIVE CharsDrawn(_)
CharsDrawn(pages) ==
    IF pages = <<>> THEN <<>>
    ELSE [k \in DOMAIN pages[1].glyphs |-> pages[1].glyphs[k].char]
             \o CharsDrawn(Tail(pages))

\* the printable characters of the raw text of sutra id, in their order
PrintableOf(id) == SelectSeq(ContentFull(id), LAMBDA ch : ch > 0)

\* C23: pagination loses, repeats and reorders nothing: while the loop runs
\* the characters drawn so far, page after page, are a prefix of the
\* whitespace-stripped corpus, and once the loop is over they are exactly the
\* stripped corpus, so that the number of glyphs drawn is its length.
C23_NothingLostOrRepeated ==
    \A c \in Started :
        LET drawn == CharsDrawn(DrawnContentPages(c))
            corpus == PrintableOf(gen[c].sutra[1])
        IN  /\ Len(drawn) <= Len(corpus)
            /\ drawn = SubSeq(corpus, 1, Len(drawn))
            /\ c \in PastLoop =>
                   /\ drawn = corpus
                   /\ Len(drawn) = LengthOf(c)

\* C23 witness: the 600 characters of a text that carries whitespace, drawn
\* on two pages
C23_Witness ==
    \E c \in Resolved :
        /\ LengthOf(c) = 600
        /\ Len(ContentFull(600)) > 600
        /\ Len(DrawnContentPages(c)) = 2
        /\ Len(CharsDrawn(DrawnContentPages(c))) = 600

(***************************************************************************)
(* C24                                                                     *)
(***************************************************************************)
\* a step of handleDownload: it calls generatePDF with isDownloading set, and
\* it is back from the await, after a success or a failure, with
\* isDownloading reset
DownloadStep ==
    \A c \in Calls :
        /\ (gen[c].pc = "idle" /\ gen'[c].pc # "idle") =>
               /\ ~isDownloading /\ isDownloading'
               /\ gen'[c].sutra = selectedSutra
        /\ (gen[c].pc # "idle" /\ gen'[c].pc = "idle") =>
               /\ gen[c].pc \in {"resolved", "rejected"}
               /\ isDownloading /\ ~isDownloading'
        /\ (gen[c].pc # "idle" /\ gen'[c].pc # "idle") =>
               isDownloading /\ isDownloading'

\* C24: at most one invocation started from the download button is pending
\* at a time, and isDownloading is true exactly while one is: handleDownload
\* sets it before the call and resets it after a success and after a
\* failure; with no sutra selected a click starts nothing and isDownloading
\* stays false.
C24_OneDownloadAtATime ==
    /\ [](Cardinality(Started) <= 1)
    /\ [](isDownloading <=> Started # {})
    /\ [](selectedSutra = <<>> => Started = {} /\ ~isDownloading)
    /\ [][DownloadStep]_vars

\* C24 witness: a download is in progress: isDownloading is set and its one
\* invocation waits for save()
C24_Witness ==
    /\ isDownloading
    /\ Cardinality(Started) = 1
    /\ \E c \in Started : gen[c].pc = "save"

(***************************************************************************)
(* C25                                                                     *)
(***************************************************************************)
\* the number of preview pages of the selected sutra, of stripped length L:
\* max(1, ceil(L / 300))
LastPreviewPage ==
    IF selectedSutra = <<>> THEN 1
    ELSE MathMax(1, MathCeilDiv(CorpusLength(selectedSutra[1]), 300))

\* C25: after any sequence of sutra selections and previous/next clicks,
\* 1 <= previewPage <= max(1, ceil(L / 300)) for the selected sutra of
\* stripped length L, and every selection of a sutra sets previewPage to 1.
C25_PreviewPageInRange ==
    /\ [](previewPage >= 1 /\ previewPage <= LastPreviewPage)
    /\ [][\A id \in SutraIds :
             SelectSutra(id) => selectedSutra' = <<id>> /\ previewPage' = 1]_vars

\* C25 witness: the preview of a sutra of 601 characters stands on its last
\* page, the third
C25_Witness ==
    /\ selectedSutra = <<601>>
    /\ previewPage = 3
    /\ NextPageDisabled

(***************************************************************************)
(* C21                                                                     *)
(***************************************************************************)
\* App is mounted, no update is queued and no effect is pending
AtRest == app.mounted /\ updates = <<>> /\ effects = <<>>

\* what the load effect of a reload would pass to setDailyStats: the parsed
\* item of 'yuanbao_daily_stats', the initial {} if there is none
StoredStats ==
    IF storage.stats = <<>> THEN NoStats ELSE JSONParse(storage.stats[1])

\* C21: after any sequence of timer ticks and toggleCheckin calls, once the
\* save effect has run, the value stored under 'yuanbao_daily_stats' is the
\* in-memory dailyStats, so that a reload restores what the user last saw,
\* including after un-checking the only remaining date.
C21_StoredStatsAreCurrent == AtRest => StoredStats = dailyStats

(***************************************************************************)
(* C22                                                                     *)
(***************************************************************************)
\* the counter of a date string in a dailyStats value, 0 if it has none
SecondsOf(stats, dateStr) ==
    IF dateStr \in DOMAIN stats THEN stats[dateStr] ELSE 0

\* a tick happens while isTimerRunning, adds 1 to the counter of the local
\* date of that moment and leaves the entry of every other date as it is
TickStep ==
    \A id \in timer.active :
        Tick(id) =>
            /\ isTimerRunning
            /\ todayStr \in DOMAIN dailyStats'
            /\ dailyStats'[todayStr] = SecondsOf(dailyStats, todayStr) + 1
            /\ DOMAIN dailyStats' = DOMAIN dailyStats \cup {todayStr}
            /\ \A k \in DOMAIN dailyStats :
                   k # todayStr => dailyStats'[k] = dailyStats[k]

\* C22: while isTimerRunning each tick adds exactly 1 to the counter of the
\* current local date string (created at 1 if absent) and leaves every other
\* date's entry unchanged; while isTimerRunning is false no interval is
\* active, so no tick changes dailyStats; after any sequence of start/pause
\* clicks at most one interval is active.
C22_TimerCountsSecondsPerDate ==
    /\ [][TickStep]_vars
    /\ [](~isTimerRunning => timer.active = {})
    /\ [](Cardinality(timer.active) <= 1)

\* C22 witness: the timer was started, paused and started again and has
\* ticked on both sides of midnight: both dates have seconds, one interval
\* is active
C22_Witness ==
    /\ isTimerRunning
    /\ timer.active = {1}
    /\ today = 2
    /\ SecondsOf(dailyStats, getLocalDateString(Days[1])) = MaxSeconds
    /\ SecondsOf(dailyStats, getLocalDateString(Days[2])) = 1
    /\ storage.stats # <<>>

(***************************************************************************)
(* C26                                                                     *)
(***************************************************************************)
\* the dailyStats the updater of a click receives as prev: the rendered
\* value after the calls queued before it, those of the effects still
\* pending included (only just after a mount is there any)
PrevStats ==
    ApplyUpdates([customBgImage |-> customBgImage, dailyStats |-> dailyStats,
                  isTimerRunning |-> isTimerRunning],
                 FlushPassiveEffects(World).updates).dailyStats

\* toggleCheckin(d) flips whether d is a key, adds it with counter 0, and
\* leaves every other date as it is
ToggleStep ==
    \A d \in CalendarDates :
        ToggleCheckinClick(d) =>
            /\ (d \in DOMAIN dailyStats') <=> (d \notin DOMAIN PrevStats)
            /\ d \in DOMAIN dailyStats' => dailyStats'[d] = 0
            /\ \A k \in (DOMAIN PrevStats \cup DOMAIN dailyStats') \ {d} :
                   /\ k \in DOMAIN PrevStats
                   /\ k \in DOMAIN dailyStats'
                   /\ dailyStats'[k] = PrevStats[k]

\* C26: toggleCheckin(d) flips whether date d is a key of dailyStats (an
\* absent date is added with counter 0, a present date is removed) and leaves
\* the entry of every other date unchanged; a date is shown as checked in
\* exactly when it is a key of dailyStats, so a date with seconds of practice
\* and the date of a tick are shown as checked in.
C26_ToggleFlipsOneDate ==
    /\ [][ToggleStep]_vars
    /\ [][\A id \in timer.active : Tick(id) => isChecked(todayStr)']_vars
    /\ [](\A d \in CalendarDates : SecondsOf(dailyStats, d) > 0 => isChecked(d))

\* C26 witness: the first date was checked in by a click and has no seconds,
\* the second has a second of practice; both are shown as checked in
C26_Witness ==
    /\ today = 2
    /\ isChecked(getLocalDateString(Days[1]))
    /\ dailyStats[getLocalDateString(Days[1])] = 0
    /\ isChecked(getLocalDateString(Days[2]))
    /\ dailyStats[getLocalDateString(Days[2])] = 1

(***************************************************************************)
(* C27                                                                     *)
(***************************************************************************)
\* C27: a custom background stored under 'yuanbao_custom_bg' survives the
\* start of the application: however the load effect, the save effect and
\* the re-render of the mount are interleaved, with the effects run once or
\* twice (StrictMode), once they are at rest customBgImage is the value that
\* was stored before the mount and the stored value is that value again;
\* afterwards the stored value is customBgImage whenever the effects of a
\* change have run, and handleRemoveCustomBg removes the stored item.
C27_CustomBackgroundSurvivesStart ==
    /\ [](AtRest /\ ~app.touched =>
             customBgImage = app.restored /\ storage.bg = app.restored)
    /\ [](AtRest => storage.bg = customBgImage)
    /\ [][HandleRemoveCustomBg => customBgImage' = <<>> /\ storage'.bg = <<>>]_vars

\* C27 witness: a page under StrictMode was opened with a background stored
\* and is at rest, no handler has run: the background is shown and stored
C27_Witness ==
    /\ AtRest
    /\ app.strict
    /\ ~app.touched
    /\ app.restored # <<>>
    /\ customBgImage = app.restored
    /\ storage.bg = app.restored

====
